---- MODULE Spec2Model ----
(***************************************************************************)
(* Frame lifecycle of the renderer in src/src/app.hpp: app::run, the       *)
(* init chain, main_loop, draw_frame, recreate_swapchain and cleanup, run  *)
(* by one CPU thread against a GPU that retires submissions on its own.    *)
(* The CPU position is pc; every Vulkan/GLFW call that returns a result    *)
(* may return any result the code tests for.                               *)
(***************************************************************************)
EXTENDS Integers, Sequences, FiniteSets, TLC

\* ------------------------------------------------------------ constants
max_frames_in_flight == 2

\* ------------------------------------------------------------ bounds
\* the largest number of images a swapchain of the model holds
MaxImages == 4
\* main_loop iterations explored (calls of draw_frame)
MaxFrames == 5
\* swapchains created in one run (the first one and the recreations)
MaxSwapchains == 3
\* the largest minImageCount and maxImageCount given to
\* choose_swap_min_image_count on its own
MaxImageCount == 5
\* the longest list of surface formats given to choose_swap_surface_format
MaxFormats == 3
\* the longest list of present modes given to choose_swap_presentation_mode
MaxModes == 3
\* the length of the memoryTypes table of vk::PhysicalDeviceMemoryProperties
MaxMemoryTypes == 3
\* texture sides 1 .. MaxTextureSide are all tried, besides the sides around 512
MaxTextureSide == 9
\* the most queue families a physical device reports
MaxQueueFamilies == 3
\* the most layers, and the most extensions, an instance reports
MaxAvailable == 3
\* the largest framebuffer side; surface limits stay below it
MaxExtentSide == 4

Slots == 0 .. (max_frames_in_flight - 1)

\* framebuffer sizes the window reports: <<width, height>>
FramebufferSizes == { <<0, 0>>, <<800, 0>>, <<800, 600>>, <<640, 480>> }

\* (minImageCount, maxImageCount) pairs the surface reports
SurfaceImageCounts == { <<1, 0>>, <<2, 2>>, <<2, 8>>, <<4, 0>> }

VARIABLES
  pc,                                \* position of the CPU thread
  result,                            \* the std::expected run() ends with
  reported,                          \* calls of report_error
  init_step,                         \* next step of the init_vulkan chain
  should_close,                      \* glfwWindowShouldClose(window_)
  framebuffer,                       \* what glfwGetFramebufferSize reports
  framebuffer_resized_,
  frame_index_,
  acquire_result, image_index,       \* draw_frame's locals
  presentation_result,               \* the local of draw_frame's present step
  width, height,                     \* recreate_swapchain's locals
  recreate_from,                     \* the caller of recreate_swapchain
  surface_,                          \* nullptr, else the surface
  swapchain_,                        \* nullptr, else the swapchain's id
  swapchain_images_,                 \* per image, the swapchain it belongs to
  swapchain_image_views_,            \* per view, the swapchain of its image
  presentation_complete_semaphores_, \* per slot: a signal is outstanding
  render_finished_semaphores_,       \* per image: a signal is outstanding
  in_flight_fences_,                 \* per slot: signalled
  unresolved,                        \* per slot: submissions the GPU has not retired
  swapchains_created,                \* swapchains created so far
  draw_calls,                        \* calls of draw_frame so far
  recreate_calls,                    \* calls of recreate_swapchain so far
  loop_exit,                         \* why main_loop's while loop ended
  idle_waited,                       \* main_loop's device-idle wait has returned
  released,                          \* cleanup() has released the swapchain and the window
  unresolved_at_release,             \* submissions unresolved when cleanup() released
  suboptimal_presented,              \* a presentKHR of the run has returned eSuboptimalKHR
  call,                              \* a function applied on its own: its name and arguments
  returned,                          \* and what it returned
  single_time_buffer,                \* the one-shot command buffer: none, recording, submitted
  single_time_unresolved,            \* submissions of one-shot buffers the GPU has not retired
  holds,                             \* per handle: 0 (nullptr), else the generation of its object
  lifetime_at,                       \* where the life of the handles stands
  raii_move,                         \* what move assignment of a vk::raii handle does
  transfer,                          \* the transfer operation under way and its position
  recorded,                          \* the Vulkan calls the operation has made so far
  texture,                           \* texture_image_: size, levels, layout of each level
  mip,                               \* the loop variables of generate_mip_maps
  targets,                           \* per render target and view, the extent of its image
  render,                            \* where the resize cycle stands, the last frame recorded
  surface_report,                    \* what the surface and the window report now
  swapchain_config                   \* swapchain_extent_, swapchain_surface_format_ and
                                     \* the create info of the swapchain that exists

cpuVars == << pc, result, reported, init_step, acquire_result, image_index,
              presentation_result, width, height, recreate_from >>
envVars == << should_close, framebuffer >>
appVars == << framebuffer_resized_, frame_index_ >>
swapVars == << surface_, swapchain_, swapchain_images_, swapchain_image_views_,
               swapchains_created >>
syncVars == << presentation_complete_semaphores_, render_finished_semaphores_,
               in_flight_fences_ >>
gpuVars == << unresolved >>
ghostVars == << draw_calls, recreate_calls, loop_exit, idle_waited, released,
                unresolved_at_release, suboptimal_presented >>

\* the locals of draw_frame and recreate_swapchain, and who called the latter
locals == << acquire_result, image_index, presentation_result, width, height,
             recreate_from >>

\* the variables of the specifications that apply single functions
configVars == << surface_report, swapchain_config >>
\* the one-shot command buffer of begin/end_single_time_commands
transferVars == << single_time_buffer, single_time_unresolved >>
\* the handles of buffers, images and their memory
lifetimeVars == << holds, lifetime_at, raii_move >>
\* the transfer operations of create_texture_image and create_vertex_buffer
engineVars == << transfer, recorded, texture, mip >>
\* the multisample color target and the depth target
targetVars == << targets, render >>
unitVars == << call, returned, configVars, transferVars, lifetimeVars,
               engineVars, targetVars >>

\* the variables of the run of the program
runVars == << cpuVars, envVars, appVars, swapVars, syncVars, gpuVars,
              ghostVars >>

vars == << runVars, unitVars >>

\* ------------------------------------------------------------ helpers
\* the members that hold a buffer or an image and the members that hold its
\* memory, after the logical device, in the order of their declaration
Members == << "device_",
              "vertex_buffer_", "vertex_buffer_memory_",
              "index_buffer_", "index_buffer_memory_",
              "uniform_buffers_", "uniform_buffers_memory_",
              "texture_image_", "texture_image_memory_",
              "depth_image_", "depth_image_memory_",
              "color_image_", "color_image_memory_" >>

\* the locals of create_texture_image, create_vertex_buffer and
\* create_index_buffer, in the order of their declaration
StagingLocals == << "staging_buffer", "staging_buffer_memory" >>

\* the temporaries of allocate_memory and of create_image whose value is
\* moved into a member when a target is replaced, the one that ends first
\* in front
Temporaries == << "color_image_memory_.replaced", "color_image_.replaced",
                 "depth_image_memory_.replaced", "depth_image_.replaced" >>

\* the elements of a sequence
Elements(seq) == { seq[i] : i \in 1 .. Len(seq) }

Handles == Elements(Members) \cup Elements(StagingLocals)
             \cup Elements(Temporaries)

\* std::numeric_limits<std::uint32_t>::max(), the width of currentExtent
\* that leaves the extent to the application; extents are kept below 2^16
\* here and the marker is the largest value of that width
uint32_max == 2 ^ 16 - 1

\* a surface whose extent follows the window, of an 800x600 window
InitialSurfaceReport ==
  [ capabilities |->
      [ currentExtent  |-> [ width |-> uint32_max, height |-> uint32_max ],
        minImageExtent |-> [ width |-> 1, height |-> 1 ],
        maxImageExtent |-> [ width |-> 4096, height |-> 4096 ],
        minImageCount  |-> 2,
        maxImageCount  |-> 0 ],
    formats |-> << [ format |-> "eB8G8R8A8Unorm",
                     colorSpace |-> "eSrgbNonlinear" ] >>,
    present_modes |-> << "eFifo" >>,
    framebuffer |-> << 800, 600 >> ]

\* the members as declared: vk::Extent2D {}, vk::SurfaceFormatKHR {}, and
\* no swapchain
InitialSwapchainConfig ==
  [ swapchain_extent_ |-> [ width |-> 0, height |-> 0 ],
    swapchain_surface_format_ |->
      [ format |-> "eUndefined", colorSpace |-> "eSrgbNonlinear" ],
    swapchain_info |-> << >> ]

\* the null handle a vk::raii object is constructed from or assigned
nullptr == 0

\* the images a frame renders into besides the swapchain's, and their views
RenderTargets == { "color_image_", "color_image_view_",
                   "depth_image_", "depth_image_view_" }

\* vk::Extent2D {}; here also the extent of a handle that holds no image
NoExtent == [ width |-> 0, height |-> 0 ]

Max(a, b) == IF a >= b THEN a ELSE b

Repeat(x, n) == [ i \in 1 .. n |-> x ]

TotalUnresolved == unresolved[0] + unresolved[1]

\* the element at 0-based index i of a std::vector, replaced
SetAt(vec, i, x) == [ vec EXCEPT ![i + 1] = x ]

Init ==
  /\ pc = "init_window"
  /\ result = "ok"
  /\ reported = 0
  /\ init_step = 1
  /\ should_close = FALSE
  /\ framebuffer = <<800, 600>>
  /\ framebuffer_resized_ = FALSE
  /\ frame_index_ = 0
  /\ acquire_result = "none"
  /\ image_index = 0
  /\ presentation_result = "none"
  /\ width = 0
  /\ height = 0
  /\ recreate_from = "none"
  /\ surface_ = nullptr
  /\ swapchain_ = nullptr
  /\ swapchain_images_ = << >>
  /\ swapchain_image_views_ = << >>
  /\ presentation_complete_semaphores_ = << >>
  /\ render_finished_semaphores_ = << >>
  /\ in_flight_fences_ = << >>
  /\ unresolved = [ s \in Slots |-> 0 ]
  /\ swapchains_created = 0
  /\ draw_calls = 0
  /\ recreate_calls = 0
  /\ loop_exit = "none"
  /\ idle_waited = FALSE
  /\ released = FALSE
  /\ unresolved_at_release = 0
  /\ suboptimal_presented = FALSE
  /\ call = [ fn |-> "none" ]
  /\ returned = [ value |-> 0, error |-> "none" ]
  /\ single_time_buffer = "none"
  /\ single_time_unresolved = 0
  /\ holds = [ handle \in Handles |-> nullptr ]
  /\ lifetime_at = [ phase |-> "init", step |-> 1 ]
  /\ raii_move = "unset"
  /\ transfer = [ op |-> 0, step |-> "load" ]
  /\ recorded = << >>
  /\ texture = [ width |-> 0, height |-> 0, mip_levels_ |-> 0,
                 layouts |-> << >>, written |-> << >> ]
  /\ mip = [ mip_level |-> 0, mip_width |-> 0, mip_height |-> 0 ]
  /\ targets = [ view \in RenderTargets |-> NoExtent ]
  /\ render = [ at |-> "create_swapchain", frame |-> << >> ]
  /\ surface_report = InitialSurfaceReport
  /\ swapchain_config = InitialSwapchainConfig

\* ------------------------------------------------------------ results
\* what swapchain_.acquireNextImage returns (vk::Result)
AcquireResults == { "eSuccess", "eSuboptimalKHR", "eErrorOutOfDateKHR",
                    "eTimeout", "eNotReady", "eErrorDeviceLost",
                    "eErrorSurfaceLostKHR" }

\* what graphics_queue_.presentKHR returns (vk::Result)
PresentResults == { "eSuccess", "eSuboptimalKHR", "eErrorOutOfDateKHR",
                    "eErrorDeviceLost", "eErrorSurfaceLostKHR" }

\* a step returns std::unexpected: the and_then chain it is in is cut short,
\* draw_frame and main_loop return the error and run() reports it
Fail(reason) ==
  /\ result' = reason
  /\ pc' = "report"
  /\ acquire_result' = "none"
  /\ image_index' = 0
  /\ presentation_result' = "none"
  /\ width' = 0
  /\ height' = 0
  /\ recreate_from' = "none"

\* a failing assert() in a build without NDEBUG: abort() ends the process
\* where it stands, nothing is returned, reported or cleaned up
Abort ==
  /\ pc' = "aborted"
  /\ acquire_result' = "none"
  /\ image_index' = 0
  /\ presentation_result' = "none"
  /\ width' = 0
  /\ height' = 0
  /\ recreate_from' = "none"
  /\ UNCHANGED result

\* a step succeeded: the next step of its chain runs
Goto(next) ==
  /\ pc' = next
  /\ UNCHANGED << result, locals >>

\* draw_frame returns success to main_loop; the locals end
Return ==
  /\ pc' = "loop_test"
  /\ acquire_result' = "none"
  /\ image_index' = 0
  /\ presentation_result' = "none"
  /\ width' = 0
  /\ height' = 0
  /\ recreate_from' = "none"
  /\ UNCHANGED result

\* draw_frame ends in `return recreate_swapchain();`
CallRecreate(from) ==
  /\ pc' = "recreate_get_size"
  /\ recreate_from' = from
  /\ acquire_result' = "none"
  /\ image_index' = 0
  /\ presentation_result' = "none"
  /\ UNCHANGED << result, width, height >>

\* ------------------------------------------------------------ window
\* glfwPollEvents / glfwWaitEvents: the pending window events are handled;
\* a size event runs framebuffer_resize_callback, a close event sets the
\* window-should-close flag
ProcessEvents ==
  \E size \in FramebufferSizes, close \in BOOLEAN :
    /\ framebuffer' = size
    /\ framebuffer_resized_' =
         IF size # framebuffer THEN TRUE ELSE framebuffer_resized_
    /\ should_close' = (should_close \/ close)

InitWindow ==
  /\ pc = "init_window"
  /\ \/ Goto("init_vulkan")
     \/ Fail("glfw_window_creation_failed")
  /\ UNCHANGED << reported, init_step, envVars, appVars, swapVars, syncVars,
                  gpuVars, ghostVars >>
  /\ UNCHANGED unitVars

\* ------------------------------------------------------------ swapchain
\* choose_swap_min_image_count without the test of maxImageCount
choose_swap_min_image_count_unclamped(minImageCount, maxImageCount) ==
  Max(3, minImageCount)

choose_swap_min_image_count(minImageCount, maxImageCount) ==
  LET min_image_count == Max(3, minImageCount)
  IN  IF 0 < maxImageCount /\ maxImageCount < min_image_count
        THEN maxImageCount
        ELSE min_image_count

CreateSwapchainOutcomes == { "ok", "query_failed", "create_failed",
                             "images_failed" }

\* create_swapchain() from the handle `before`: the three surface queries,
\* createSwapchainKHR with the chosen minimum image count, getImages. The
\* driver creates at least the requested number of images.
create_swapchain(outcome, before) ==
  \E counts \in SurfaceImageCounts :
    LET requested == choose_swap_min_image_count(counts[1], counts[2])
        created   == outcome \in { "ok", "images_failed" }
        id        == swapchains_created + 1
    IN  /\ created => swapchains_created < MaxSwapchains
        /\ swapchains_created' = IF created THEN id ELSE swapchains_created
        /\ swapchain_' = IF created THEN id ELSE before
        /\ IF outcome = "ok"
             THEN \E n \in requested .. MaxImages :
                    swapchain_images_' = Repeat(id, n)
             ELSE UNCHANGED swapchain_images_

CreateImageViewsOutcomes == { "ok", "failed" }

\* create_image_views() that makes a view of the first image only
create_image_views_first_only(outcome) ==
  swapchain_image_views_' = SubSeq(swapchain_images_, 1, 1)

\* create_image_views(): clears the views, then one view per image; a
\* failing create_image_view leaves the views made so far
create_image_views(outcome) ==
  IF outcome = "ok"
    THEN swapchain_image_views_' = swapchain_images_
    ELSE \E k \in 0 .. (Len(swapchain_images_) - 1) :
           swapchain_image_views_' = SubSeq(swapchain_images_, 1, k)

\* create_sync_objects(): one render-finished semaphore per swapchain image,
\* then per frame slot a presentation-complete semaphore and a fence created
\* signalled; a failing create leaves what was made so far
create_sync_objects(outcome) ==
  LET images == Len(swapchain_images_)
  IN  \/ /\ outcome = "ok"
         /\ render_finished_semaphores_' = Repeat(FALSE, images)
         /\ presentation_complete_semaphores_' =
              Repeat(FALSE, max_frames_in_flight)
         /\ in_flight_fences_' = Repeat(TRUE, max_frames_in_flight)
      \/ /\ outcome = "failed"
         /\ \/ \E k \in 0 .. (images - 1) :
                 /\ render_finished_semaphores_' = Repeat(FALSE, k)
                 /\ presentation_complete_semaphores_' = << >>
                 /\ in_flight_fences_' = << >>
            \/ \E j \in 0 .. (max_frames_in_flight - 1), sem \in 0 .. 1 :
                 /\ render_finished_semaphores_' = Repeat(FALSE, images)
                 /\ presentation_complete_semaphores_' = Repeat(FALSE, j + sem)
                 /\ in_flight_fences_' = Repeat(TRUE, j)

\* swapchain_image_views_.clear(); swapchain_ = nullptr;
cleanup_swapchain ==
  /\ swapchain_image_views_' = << >>
  /\ swapchain_' = nullptr

\* ------------------------------------------------------------ init_vulkan
InitSteps == << "create_instance", "setup_debug_messenger", "create_surface",
  "pick_physical_device", "create_logical_device", "create_swapchain",
  "create_image_views", "create_descriptor_set_layout", "create_command_pool",
  "create_color_resources", "create_depth_resources",
  "create_graphics_pipeline", "create_texture_image",
  "create_texture_image_view", "create_texture_sampler", "load_model",
  "create_vertex_buffer", "create_index_buffer", "create_uniform_buffers",
  "create_descriptor_pool", "create_descriptor_sets",
  "create_command_buffers", "create_sync_objects" >>

\* the steps that copy with a one-shot command buffer: transition_image_layout,
\* copy_buffer_to_image and generate_mip_maps in create_texture_image,
\* copy_buffer in create_vertex_buffer and create_index_buffer
TransferSteps == { "create_texture_image", "create_vertex_buffer",
                   "create_index_buffer" }

\* the and_then chain: after a successful step the next one runs, after
\* the last one main_loop starts
InitAdvance ==
  /\ init_step' = init_step + 1
  /\ Goto(IF init_step = Len(InitSteps) THEN "loop_test" ELSE "init_vulkan")

\* an and_then chain that keeps the error and goes on with the next step
InitFailContinues(reason) ==
  /\ result' = reason
  /\ init_step' = init_step + 1
  /\ pc' = IF init_step = Len(InitSteps) THEN "loop_test" ELSE "init_vulkan"
  /\ UNCHANGED locals

\* the and_then chain: after a failing step no other step runs
InitFail(reason) ==
  /\ Fail(reason)
  /\ UNCHANGED init_step

InitCreateSurface ==
  /\ pc = "init_vulkan"
  /\ InitSteps[init_step] = "create_surface"
  /\ \/ /\ surface_' = 1
        /\ InitAdvance
     \/ /\ InitFail("glfw_surface_creation_failed")
        /\ UNCHANGED surface_
  /\ UNCHANGED << reported, envVars, appVars, swapchain_, swapchain_images_,
                  swapchain_image_views_, swapchains_created, syncVars,
                  gpuVars, ghostVars >>
  /\ UNCHANGED unitVars

InitCreateSwapchain ==
  /\ pc = "init_vulkan"
  /\ InitSteps[init_step] = "create_swapchain"
  /\ \E outcome \in CreateSwapchainOutcomes :
       /\ create_swapchain(outcome, swapchain_)
       /\ IF outcome = "ok" THEN InitAdvance ELSE InitFail("vk_error")
  /\ UNCHANGED << reported, envVars, appVars, surface_,
                  swapchain_image_views_, syncVars, gpuVars, ghostVars >>
  /\ UNCHANGED unitVars

InitCreateImageViews ==
  /\ pc = "init_vulkan"
  /\ InitSteps[init_step] = "create_image_views"
  /\ \E outcome \in CreateImageViewsOutcomes :
       /\ create_image_views(outcome)
       /\ IF outcome = "ok" THEN InitAdvance ELSE InitFail("vk_error")
  /\ UNCHANGED << reported, envVars, appVars, surface_, swapchain_,
                  swapchain_images_, swapchains_created, syncVars, gpuVars,
                  ghostVars >>
  /\ UNCHANGED unitVars

InitCreateSyncObjects ==
  /\ pc = "init_vulkan"
  /\ InitSteps[init_step] = "create_sync_objects"
  /\ \E outcome \in { "ok", "failed" } :
       /\ create_sync_objects(outcome)
       /\ IF outcome = "ok" THEN InitAdvance ELSE InitFail("vk_error")
  /\ UNCHANGED << reported, envVars, appVars, swapVars, gpuVars, ghostVars >>
  /\ UNCHANGED unitVars

\* the steps of the chain that change none of the state modelled here
InitOtherStep ==
  /\ pc = "init_vulkan"
  /\ InitSteps[init_step] \notin
       { "create_surface", "create_swapchain", "create_image_views",
         "create_sync_objects" } \cup TransferSteps
  /\ \/ InitAdvance
     \/ InitFail(InitSteps[init_step])
  /\ UNCHANGED << reported, envVars, appVars, swapVars, syncVars, gpuVars,
                  ghostVars >>
  /\ UNCHANGED unitVars

\* ------------------------------------------------------------ transfers
\* what the transfer steps leave alone
TransferFrame ==
  UNCHANGED << reported, envVars, appVars, swapVars, syncVars, gpuVars,
               ghostVars, call, returned, configVars, lifetimeVars, targetVars, engineVars >>

\* a transfer step up to its first one-shot command buffer, or, in
\* create_texture_image, from one one-shot command buffer to the next:
\* begin_single_time_commands allocates a command buffer and begins it
BeginSingleTimeCommands ==
  /\ \/ pc = "init_vulkan" /\ InitSteps[init_step] \in TransferSteps
     \/ /\ pc = "single_time_done"
        /\ InitSteps[init_step] = "create_texture_image"
  /\ \/ /\ single_time_buffer' = "recording"
        /\ Goto("end_single_time_commands")
        /\ UNCHANGED << init_step, single_time_unresolved >>
     \/ /\ InitFail(InitSteps[init_step])
        /\ UNCHANGED transferVars
  /\ TransferFrame

\* end_single_time_commands up to its submit: command_buffer.end() and
\* graphics_queue_.submit without a fence; when one of them fails the
\* function returns and its parameter, the command buffer, is freed
EndSingleTimeCommands ==
  /\ pc = "end_single_time_commands"
  /\ \/ /\ single_time_buffer' = "submitted"
        /\ single_time_unresolved' = single_time_unresolved + 1
        /\ Goto("single_time_wait_idle")
        /\ UNCHANGED init_step
     \/ /\ single_time_buffer' = "none"
        /\ InitFail("vk_error")
        /\ UNCHANGED single_time_unresolved
  /\ TransferFrame

\* EndSingleTimeWaitIdle, with the wait returning success at once
EndSingleTimeNoWaitIdle ==
  /\ pc = "single_time_wait_idle"
  /\ single_time_buffer' = "none"
  /\ Goto("single_time_done")
  /\ UNCHANGED << init_step, single_time_unresolved >>
  /\ TransferFrame

\* the end of end_single_time_commands: graphics_queue_.waitIdle(), then
\* the function returns and the command buffer is freed; a wait that
\* succeeds has seen the submission retired
EndSingleTimeWaitIdle ==
  /\ pc = "single_time_wait_idle"
  /\ single_time_buffer' = "none"
  /\ \/ /\ single_time_unresolved' = 0
        /\ Goto("single_time_done")
        /\ UNCHANGED init_step
     \/ /\ InitFail("vk_error")
        /\ UNCHANGED single_time_unresolved
  /\ TransferFrame

\* the rest of a transfer step after its last one-shot command buffer
FinishTransferStep ==
  /\ pc = "single_time_done"
  /\ \/ InitAdvance
     \/ InitFail(InitSteps[init_step])
  /\ UNCHANGED transferVars
  /\ TransferFrame

\* the device retires the submission of a one-shot command buffer
GpuRetireSingleTime ==
  /\ single_time_unresolved > 0
  /\ single_time_unresolved' = single_time_unresolved - 1
  /\ UNCHANGED << runVars, call, returned, configVars, single_time_buffer,
                  lifetimeVars, targetVars, engineVars >>

\* ------------------------------------------------------------ the GPU
\* the device retires one unresolved submission of slot s; the fence given
\* to that submit becomes signalled
GpuRetire(s) ==
  /\ unresolved[s] > 0
  /\ unresolved' = [ unresolved EXCEPT ![s] = @ - 1 ]
  /\ in_flight_fences_' = SetAt(in_flight_fences_, s, TRUE)
  /\ UNCHANGED << cpuVars, envVars, appVars, swapVars,
                  presentation_complete_semaphores_,
                  render_finished_semaphores_, ghostVars >>
  /\ UNCHANGED unitVars

\* device_.waitIdle() returning success: every submission has been retired
\* and has signalled its fence
DeviceIdle ==
  /\ unresolved' = [ s \in Slots |-> 0 ]
  /\ in_flight_fences_' =
       [ i \in 1 .. Len(in_flight_fences_) |->
           IF unresolved[i - 1] > 0 THEN TRUE ELSE in_flight_fences_[i] ]

\* device_.waitIdle() returning an error
DeviceNotIdle == UNCHANGED << unresolved, in_flight_fences_ >>

\* ------------------------------------------------------------ main_loop
\* while (glfwWindowShouldClose(window_) == 0)
LoopTest ==
  /\ UNCHANGED suboptimal_presented
  /\ pc = "loop_test"
  /\ IF should_close
       THEN /\ Goto("main_loop_wait_idle")
            /\ loop_exit' = "closed"
       ELSE /\ draw_calls < MaxFrames
            /\ Goto("poll_events")
            /\ UNCHANGED loop_exit
  /\ UNCHANGED << reported, init_step, envVars, appVars, swapVars, syncVars,
                  gpuVars, draw_calls, recreate_calls, idle_waited, released,
                  unresolved_at_release >>
  /\ UNCHANGED unitVars

\* glfwPollEvents(); then draw_frame() is entered
PollEvents ==
  /\ UNCHANGED suboptimal_presented
  /\ pc = "poll_events"
  /\ ProcessEvents
  /\ Goto("wait_for_fences")
  /\ draw_calls' = draw_calls + 1
  /\ UNCHANGED << reported, init_step, frame_index_, swapVars, syncVars,
                  gpuVars, recreate_calls, loop_exit, idle_waited, released,
                  unresolved_at_release >>
  /\ UNCHANGED unitVars

\* MainLoopWaitIdle, with main_loop returning success without the wait
MainLoopNoWait ==
  /\ pc = "main_loop_wait_idle"
  /\ Goto("cleanup")
  /\ UNCHANGED << reported, init_step, envVars, appVars, swapVars, syncVars,
                  gpuVars, ghostVars >>
  /\ UNCHANGED unitVars

\* return vkutils::locate(device_.waitIdle());
MainLoopWaitIdle ==
  /\ UNCHANGED suboptimal_presented
  /\ pc = "main_loop_wait_idle"
  /\ idle_waited' = TRUE
  /\ \/ DeviceIdle /\ Goto("cleanup")
     \/ DeviceNotIdle /\ Fail("vk_error")
  /\ UNCHANGED << reported, init_step, envVars, appVars, swapVars,
                  presentation_complete_semaphores_,
                  render_finished_semaphores_, draw_calls, recreate_calls,
                  loop_exit, released, unresolved_at_release >>
  /\ UNCHANGED unitVars

\* ------------------------------------------------------------ run
\* if (!result.has_value()) { report_error(result.error()); }
ReportError ==
  /\ pc = "report"
  /\ reported' = reported + 1
  /\ Goto("cleanup")
  /\ UNCHANGED << init_step, envVars, appVars, swapVars, syncVars, gpuVars,
                  ghostVars >>
  /\ UNCHANGED unitVars

\* cleanup(): cleanup_swapchain(); glfwDestroyWindow; glfwTerminate
Cleanup ==
  /\ UNCHANGED suboptimal_presented
  /\ pc = "cleanup"
  /\ cleanup_swapchain
  /\ released' = TRUE
  /\ unresolved_at_release' = TotalUnresolved
  /\ Goto("done")
  /\ UNCHANGED << reported, init_step, envVars, appVars, surface_,
                  swapchain_images_, swapchains_created, syncVars, gpuVars,
                  draw_calls, recreate_calls, loop_exit, idle_waited >>
  /\ UNCHANGED unitVars

\* ------------------------------------------------------------ draw_frame
Slot == frame_index_ + 1

\* WaitForFences, with the fence reset as soon as the wait has returned
WaitForFencesAndReset ==
  /\ pc = "wait_for_fences"
  /\ \/ /\ in_flight_fences_[Slot]
        /\ in_flight_fences_' = SetAt(in_flight_fences_, frame_index_, FALSE)
        /\ Goto("acquire")
     \/ /\ Fail("wait_for_fences_failed")
        /\ UNCHANGED in_flight_fences_
  /\ UNCHANGED << reported, init_step, envVars, appVars, swapVars,
                  presentation_complete_semaphores_,
                  render_finished_semaphores_, gpuVars, ghostVars >>
  /\ UNCHANGED unitVars

\* WaitForFences, with the wait returning whether or not the fence is signalled
WaitForFencesNoWait ==
  /\ pc = "wait_for_fences"
  /\ \/ Goto("acquire")
     \/ Fail("wait_for_fences_failed")
  /\ UNCHANGED << reported, init_step, envVars, appVars, swapVars, syncVars,
                  gpuVars, ghostVars >>
  /\ UNCHANGED unitVars

\* device_.waitForFences(in_flight_fences_[frame_index_], true, UINT64_MAX):
\* returns success once the fence is signalled
WaitForFences ==
  /\ pc = "wait_for_fences"
  /\ \/ in_flight_fences_[Slot] /\ Goto("acquire")
     \/ Fail("wait_for_fences_failed")
  /\ UNCHANGED << reported, init_step, envVars, appVars, swapVars, syncVars,
                  gpuVars, ghostVars >>
  /\ UNCHANGED unitVars

\* swapchain_.acquireNextImage(UINT64_MAX, presentation_complete_semaphores_
\* [frame_index_], nullptr): with success or suboptimal an image of the
\* swapchain is acquired and the semaphore will be signalled
AcquireNextImage ==
  /\ pc = "acquire"
  /\ \E r \in AcquireResults :
       /\ acquire_result' = r
       /\ IF r \in { "eSuccess", "eSuboptimalKHR" }
            THEN /\ \E i \in 0 .. (Len(swapchain_images_) - 1) :
                      image_index' = i
                 /\ presentation_complete_semaphores_' =
                      SetAt(presentation_complete_semaphores_, frame_index_,
                            TRUE)
            ELSE UNCHANGED << image_index,
                              presentation_complete_semaphores_ >>
  /\ pc' = "acquire_result"
  /\ UNCHANGED << result, reported, init_step, presentation_result, width,
                  height, recreate_from, envVars, appVars, swapVars,
                  render_finished_semaphores_, in_flight_fences_, gpuVars,
                  ghostVars >>
  /\ UNCHANGED unitVars

\* the results the assert in draw_frame lets through
AssertedAcquireResults == { "eTimeout", "eNotReady" }

\* AcquireResult, with out-of-date handled like suboptimal: the frame is drawn
AcquireResultDraws ==
  /\ pc = "acquire_result"
  /\ IF acquire_result \notin { "eSuccess", "eSuboptimalKHR",
                                "eErrorOutOfDateKHR" }
       THEN \/ Fail("next_image_acquire_failed")
            \/ /\ acquire_result \notin AssertedAcquireResults
               /\ Abort
       ELSE Goto("update_uniform_buffer")
  /\ UNCHANGED << reported, init_step, envVars, appVars, swapVars, syncVars,
                  gpuVars, ghostVars >>
  /\ UNCHANGED unitVars

\* AcquireResult, with the out-of-date branch clearing framebuffer_resized_
\* as the present branch does
AcquireResultClearsFlag ==
  /\ pc = "acquire_result"
  /\ IF acquire_result = "eErrorOutOfDateKHR"
       THEN /\ framebuffer_resized_' = FALSE
            /\ CallRecreate("acquire")
       ELSE /\ UNCHANGED framebuffer_resized_
            /\ IF acquire_result # "eSuccess" /\ acquire_result # "eSuboptimalKHR"
                 THEN \/ Fail("next_image_acquire_failed")
                      \/ /\ acquire_result \notin AssertedAcquireResults
                         /\ Abort
                 ELSE Goto("update_uniform_buffer")
  /\ UNCHANGED << reported, init_step, envVars, frame_index_, swapVars,
                  syncVars, gpuVars, ghostVars >>
  /\ UNCHANGED unitVars

\* the two tests of acquire_result. In the second one the assert comes
\* first: a build with NDEBUG compiles it out, a build without it aborts on
\* a result that is neither eTimeout nor eNotReady
AcquireResult ==
  /\ pc = "acquire_result"
  /\ IF acquire_result = "eErrorOutOfDateKHR"
       THEN CallRecreate("acquire")
       ELSE IF acquire_result # "eSuccess" /\ acquire_result # "eSuboptimalKHR"
         THEN \/ Fail("next_image_acquire_failed")
              \/ /\ acquire_result \notin AssertedAcquireResults
                 /\ Abort
         ELSE Goto("update_uniform_buffer")
  /\ UNCHANGED << reported, init_step, envVars, appVars, swapVars, syncVars,
                  gpuVars, ghostVars >>
  /\ UNCHANGED unitVars

\* update_uniform_buffer(frame_index_)
UpdateUniformBuffer ==
  /\ pc = "update_uniform_buffer"
  /\ Goto("reset_fences")
  /\ UNCHANGED << reported, init_step, envVars, appVars, swapVars, syncVars,
                  gpuVars, ghostVars >>
  /\ UNCHANGED unitVars

\* ResetFences, followed by the recording without the command buffer's reset
ResetFencesThenRecord ==
  /\ pc = "reset_fences"
  /\ \/ /\ in_flight_fences_' = SetAt(in_flight_fences_, frame_index_, FALSE)
        /\ Goto("record_command_buffer")
     \/ /\ Fail("vk_error")
        /\ UNCHANGED in_flight_fences_
  /\ UNCHANGED << reported, init_step, envVars, appVars, swapVars,
                  presentation_complete_semaphores_,
                  render_finished_semaphores_, gpuVars, ghostVars >>
  /\ UNCHANGED unitVars

\* device_.resetFences(in_flight_fences_[frame_index_])
ResetFences ==
  /\ pc = "reset_fences"
  /\ \/ /\ in_flight_fences_' = SetAt(in_flight_fences_, frame_index_, FALSE)
        /\ Goto("reset_command_buffer")
     \/ /\ Fail("vk_error")
        /\ UNCHANGED in_flight_fences_
  /\ UNCHANGED << reported, init_step, envVars, appVars, swapVars,
                  presentation_complete_semaphores_,
                  render_finished_semaphores_, gpuVars, ghostVars >>
  /\ UNCHANGED unitVars

\* command_buffers_[frame_index_].reset()
ResetCommandBuffer ==
  /\ pc = "reset_command_buffer"
  /\ \/ Goto("record_command_buffer")
     \/ Fail("vk_error")
  /\ UNCHANGED << reported, init_step, envVars, appVars, swapVars, syncVars,
                  gpuVars, ghostVars >>
  /\ UNCHANGED unitVars

\* record_command_buffer(image_index): begin ... end
RecordCommandBuffer ==
  /\ pc = "record_command_buffer"
  /\ \/ Goto("submit")
     \/ Fail("vk_error")
  /\ UNCHANGED << reported, init_step, envVars, appVars, swapVars, syncVars,
                  gpuVars, ghostVars >>
  /\ UNCHANGED unitVars

\* render_finished_semaphores_[image_index] names an element of the vector
InRange == image_index < Len(render_finished_semaphores_)

\* graphics_queue_.submit(submit_info, in_flight_fences_[frame_index_]): the
\* batch waits on the slot's presentation-complete semaphore, signals the
\* image's render-finished semaphore and, when retired, the slot's fence.
\* Indexing the vector past its end is undefined: no semaphore of the vector
\* is touched and the run goes on either way.
Submit ==
  /\ pc = "submit"
  /\ \/ /\ unresolved' = [ unresolved EXCEPT ![frame_index_] = @ + 1 ]
        /\ presentation_complete_semaphores_' =
             SetAt(presentation_complete_semaphores_, frame_index_, FALSE)
        /\ render_finished_semaphores_' =
             IF InRange
               THEN SetAt(render_finished_semaphores_, image_index, TRUE)
               ELSE render_finished_semaphores_
        /\ Goto("present")
     \/ /\ Fail("vk_error")
        /\ UNCHANGED << unresolved, presentation_complete_semaphores_,
                        render_finished_semaphores_ >>
  /\ UNCHANGED << reported, init_step, envVars, appVars, swapVars,
                  in_flight_fences_, ghostVars >>
  /\ UNCHANGED unitVars

\* graphics_queue_.presentKHR(present_info_KHR): the present waits on the
\* image's render-finished semaphore
QueuePresent ==
  /\ pc = "present"
  /\ render_finished_semaphores_' =
       IF InRange
         THEN SetAt(render_finished_semaphores_, image_index, FALSE)
         ELSE render_finished_semaphores_
  /\ \E r \in PresentResults : presentation_result' = r
  /\ suboptimal_presented' =
       (suboptimal_presented \/ presentation_result' = "eSuboptimalKHR")
  /\ pc' = "present_result"
  /\ UNCHANGED << result, reported, init_step, acquire_result, image_index,
                  width, height, recreate_from, envVars, appVars, swapVars,
                  presentation_complete_semaphores_, in_flight_fences_,
                  gpuVars, draw_calls, recreate_calls, loop_exit, idle_waited,
                  released, unresolved_at_release >>
  /\ UNCHANGED unitVars

\* PresentResult, with only out-of-date and the resize flag recovered: a
\* suboptimal present is fatal like any other result that is not success
PresentResultSuboptimalFatal ==
  /\ UNCHANGED unitVars
  /\ pc = "present_result"
  /\ IF \/ presentation_result = "eErrorOutOfDateKHR"
        \/ framebuffer_resized_
       THEN /\ framebuffer_resized_' = FALSE
            /\ CallRecreate("present")
            /\ UNCHANGED frame_index_
       ELSE IF presentation_result # "eSuccess"
         THEN /\ Fail("queue_present_failed")
              /\ UNCHANGED << framebuffer_resized_, frame_index_ >>
         ELSE /\ frame_index_' = (frame_index_ + 1) % max_frames_in_flight
              /\ Return
              /\ UNCHANGED framebuffer_resized_
  /\ UNCHANGED << reported, init_step, envVars, swapVars, syncVars, gpuVars,
                  ghostVars >>

\* PresentResult, with the resize flag left set by the recreation branch
PresentResultKeepsFlag ==
  /\ pc = "present_result"
  /\ IF \/ presentation_result = "eSuboptimalKHR"
        \/ presentation_result = "eErrorOutOfDateKHR"
        \/ framebuffer_resized_
       THEN /\ CallRecreate("present")
            /\ UNCHANGED << framebuffer_resized_, frame_index_ >>
       ELSE IF presentation_result # "eSuccess"
         THEN /\ Fail("queue_present_failed")
              /\ UNCHANGED << framebuffer_resized_, frame_index_ >>
         ELSE /\ frame_index_' = (frame_index_ + 1) % max_frames_in_flight
              /\ Return
              /\ UNCHANGED framebuffer_resized_
  /\ UNCHANGED << reported, init_step, envVars, swapVars, syncVars, gpuVars,
                  ghostVars >>
  /\ UNCHANGED unitVars

\* PresentResult, with frame_index_ advanced by the recreation branch too
PresentResultAlwaysAdvances ==
  /\ pc = "present_result"
  /\ IF \/ presentation_result = "eSuboptimalKHR"
        \/ presentation_result = "eErrorOutOfDateKHR"
        \/ framebuffer_resized_
       THEN /\ framebuffer_resized_' = FALSE
            /\ CallRecreate("present")
            /\ frame_index_' = (frame_index_ + 1) % max_frames_in_flight
       ELSE IF presentation_result # "eSuccess"
         THEN /\ Fail("queue_present_failed")
              /\ UNCHANGED << framebuffer_resized_, frame_index_ >>
         ELSE /\ frame_index_' = (frame_index_ + 1) % max_frames_in_flight
              /\ Return
              /\ UNCHANGED framebuffer_resized_
  /\ UNCHANGED << reported, init_step, envVars, swapVars, syncVars, gpuVars,
                  ghostVars >>
  /\ UNCHANGED unitVars

\* what follows the present: the recreation branch, the fatal branch, the
\* advance of frame_index_
PresentResult ==
  /\ pc = "present_result"
  /\ IF \/ presentation_result = "eSuboptimalKHR"
        \/ presentation_result = "eErrorOutOfDateKHR"
        \/ framebuffer_resized_
       THEN /\ framebuffer_resized_' = FALSE
            /\ CallRecreate("present")
            /\ UNCHANGED frame_index_
       ELSE IF presentation_result # "eSuccess"
         THEN /\ Fail("queue_present_failed")
              /\ UNCHANGED << framebuffer_resized_, frame_index_ >>
         ELSE /\ frame_index_' = (frame_index_ + 1) % max_frames_in_flight
              /\ Return
              /\ UNCHANGED framebuffer_resized_
  /\ UNCHANGED << reported, init_step, envVars, swapVars, syncVars, gpuVars,
                  ghostVars >>
  /\ UNCHANGED unitVars

\* ------------------------------------------------------------ recreate_swapchain
\* ZeroSized, with && in place of ||
BothZero(w, h) == w = 0 /\ h = 0

\* the test of while (width == 0 || height == 0)
ZeroSized(w, h) == w = 0 \/ h = 0

\* RecreateGetSize as the head of a do-while loop: the body runs once
\* whatever the size is
RecreateGetSizeThenWait ==
  /\ UNCHANGED suboptimal_presented
  /\ pc = "recreate_get_size"
  /\ width' = framebuffer[1]
  /\ height' = framebuffer[2]
  /\ pc' = "recreate_wait_events"
  /\ recreate_calls' = recreate_calls + 1
  /\ UNCHANGED << result, reported, init_step, acquire_result, image_index,
                  presentation_result, recreate_from, envVars, appVars,
                  swapVars, syncVars, gpuVars, draw_calls, loop_exit,
                  idle_waited, released, unresolved_at_release >>
  /\ UNCHANGED unitVars

\* glfwGetFramebufferSize(window_, &width, &height); and the first test of
\* the while loop
RecreateGetSize ==
  /\ UNCHANGED suboptimal_presented
  /\ pc = "recreate_get_size"
  /\ width' = framebuffer[1]
  /\ height' = framebuffer[2]
  /\ pc' = IF ZeroSized(width', height') THEN "recreate_wait_events"
                                         ELSE "recreate_wait_idle"
  /\ recreate_calls' = recreate_calls + 1
  /\ UNCHANGED << result, reported, init_step, acquire_result, image_index,
                  presentation_result, recreate_from, envVars, appVars,
                  swapVars, syncVars, gpuVars, draw_calls, loop_exit,
                  idle_waited, released, unresolved_at_release >>
  /\ UNCHANGED unitVars

\* the loop body begins: glfwGetFramebufferSize(window_, &width, &height)
RecreateLoopGetSize ==
  /\ UNCHANGED unitVars
  /\ pc = "recreate_wait_events"
  /\ width' = framebuffer[1]
  /\ height' = framebuffer[2]
  /\ pc' = "recreate_glfw_wait_events"
  /\ UNCHANGED << result, reported, init_step, acquire_result, image_index,
                  presentation_result, recreate_from, envVars, appVars,
                  swapVars, syncVars, gpuVars, ghostVars >>

\* RecreateWaitEvents, with a close request handled inside the wait ending
\* the recreation and the loop at once
RecreateWaitEventsCancels ==
  /\ UNCHANGED unitVars
  /\ pc = "recreate_glfw_wait_events"
  /\ ProcessEvents
  /\ pc' = IF should_close' THEN "main_loop_wait_idle"
           ELSE IF ZeroSized(width, height) THEN "recreate_wait_events"
                                            ELSE "recreate_wait_idle"
  /\ UNCHANGED << result, reported, init_step, locals, frame_index_,
                  swapVars, syncVars, gpuVars, ghostVars >>

\* glfwWaitEvents() returns once an event has come and has been handled;
\* then the loop tests the width and height read before the wait
RecreateWaitEvents ==
  /\ UNCHANGED unitVars
  /\ pc = "recreate_glfw_wait_events"
  /\ ProcessEvents
  /\ pc' = IF ZeroSized(width, height) THEN "recreate_wait_events"
                                       ELSE "recreate_wait_idle"
  /\ UNCHANGED << result, reported, init_step, locals, frame_index_,
                  swapVars, syncVars, gpuVars, ghostVars >>

\* RecreateWaitIdle, with the swapchain replaced without the wait
RecreateNoWaitIdle ==
  /\ pc = "recreate_wait_idle"
  /\ Goto("recreate_create_swapchain")
  /\ UNCHANGED << reported, init_step, envVars, appVars, swapVars, syncVars,
                  gpuVars, ghostVars >>
  /\ UNCHANGED unitVars

\* vkutils::locate(device_.waitIdle())
RecreateWaitIdle ==
  /\ pc = "recreate_wait_idle"
  /\ \/ DeviceIdle /\ Goto("recreate_create_swapchain")
     \/ DeviceNotIdle /\ Fail("vk_error")
  /\ UNCHANGED << reported, init_step, envVars, appVars, swapVars,
                  presentation_complete_semaphores_,
                  render_finished_semaphores_, ghostVars >>
  /\ UNCHANGED unitVars

\* cleanup_swapchain(); return create_swapchain();
RecreateCreateSwapchain ==
  /\ pc = "recreate_create_swapchain"
  /\ swapchain_image_views_' = << >>
  /\ \E outcome \in CreateSwapchainOutcomes :
       /\ create_swapchain(outcome, nullptr)
       /\ IF outcome = "ok" THEN Goto("recreate_create_image_views")
                            ELSE Fail("vk_error")
  /\ UNCHANGED << reported, init_step, envVars, appVars, surface_, syncVars,
                  gpuVars, ghostVars >>
  /\ UNCHANGED unitVars

RecreateCreateImageViews ==
  /\ pc = "recreate_create_image_views"
  /\ \E outcome \in CreateImageViewsOutcomes :
       /\ create_image_views(outcome)
       /\ IF outcome = "ok" THEN Goto("recreate_create_color_resources")
                            ELSE Fail("vk_error")
  /\ UNCHANGED << reported, init_step, envVars, appVars, surface_,
                  swapchain_, swapchain_images_, swapchains_created,
                  syncVars, gpuVars, ghostVars >>
  /\ UNCHANGED unitVars

RecreateCreateColorResources ==
  /\ pc = "recreate_create_color_resources"
  /\ \/ Goto("recreate_create_depth_resources")
     \/ Fail("vk_error")
  /\ UNCHANGED << reported, init_step, envVars, appVars, swapVars, syncVars,
                  gpuVars, ghostVars >>
  /\ UNCHANGED unitVars

\* the last step of the chain; on success recreate_swapchain and with it
\* draw_frame return to main_loop
RecreateCreateDepthResources ==
  /\ pc = "recreate_create_depth_resources"
  /\ \/ Return
     \/ Fail("vk_error")
  /\ UNCHANGED << reported, init_step, envVars, appVars, swapVars, syncVars,
                  gpuVars, ghostVars >>
  /\ UNCHANGED unitVars

\* ------------------------------------------------------------ specification
Next ==
  \/ InitWindow
  \/ InitCreateSurface
  \/ InitCreateSwapchain
  \/ InitCreateImageViews
  \/ InitCreateSyncObjects
  \/ InitOtherStep
  \/ BeginSingleTimeCommands
  \/ EndSingleTimeCommands
  \/ EndSingleTimeWaitIdle
  \/ FinishTransferStep
  \/ GpuRetireSingleTime
  \/ LoopTest
  \/ PollEvents
  \/ WaitForFences
  \/ AcquireNextImage
  \/ AcquireResult
  \/ UpdateUniformBuffer
  \/ ResetFences
  \/ ResetCommandBuffer
  \/ RecordCommandBuffer
  \/ Submit
  \/ QueuePresent
  \/ PresentResult
  \/ RecreateGetSize
  \/ RecreateLoopGetSize
  \/ RecreateWaitEvents
  \/ RecreateWaitIdle
  \/ RecreateCreateSwapchain
  \/ RecreateCreateImageViews
  \/ RecreateCreateColorResources
  \/ RecreateCreateDepthResources
  \/ MainLoopWaitIdle
  \/ ReportError
  \/ Cleanup
  \/ \E s \in Slots : GpuRetire(s)

Spec == Init /\ [][Next]_vars

\* waitForFences returns success: the slot's fence is signalled
FenceWaitReturns == WaitForFences /\ pc' = "acquire"

\* the run of the program on a device that retires every submission it was
\* given and wakes a fence wait whose fence is signalled
LiveSpec ==
  /\ Spec
  /\ \A s \in Slots : WF_vars(GpuRetire(s))
  /\ WF_vars(FenceWaitReturns)

\* LiveSpec with a CPU thread that keeps running: a step that can be taken
\* is taken, and glfwWaitEvents() returns because an event does come
RunSpec ==
  /\ LiveSpec
  /\ WF_vars(Next)

\* ------------------------------------------------------------ single functions
\* the function `fn` is applied to `args`, once, and returns `value`
Returns(fn, args, value) ==
  /\ call.fn = "none"
  /\ call' = [ fn |-> fn, args |-> args ]
  /\ returned' = [ value |-> value, error |-> "none" ]
  /\ UNCHANGED << runVars, configVars, transferVars, lifetimeVars, targetVars, engineVars >>

\* choose_swap_min_image_count(surface_capabilities) for any pair of counts
ChooseSwapMinImageCount ==
  /\ call.fn = "none"
  /\ \E minImageCount \in 0 .. MaxImageCount, maxImageCount \in 0 .. MaxImageCount :
    Returns("choose_swap_min_image_count",
            [ minImageCount |-> minImageCount, maxImageCount |-> maxImageCount ],
            choose_swap_min_image_count(minImageCount, maxImageCount))

\* the non-empty lists over S of at most n elements
ListsOf(S, n) == UNION { [ 1 .. k -> S ] : k \in 1 .. n }

\* vk::SurfaceFormatKHR values a surface may report
SurfaceFormats ==
  [ format : { "eB8G8R8A8Srgb", "eB8G8R8A8Unorm", "eR8G8B8A8Srgb" },
    colorSpace : { "eSrgbNonlinear", "eExtendedSrgbLinearEXT" } ]

\* the predicate of the find_if, with the colour space left untested
IsPreferredFormatOnly(available_format) ==
  available_format.format = "eB8G8R8A8Srgb"

\* the predicate of the find_if in choose_swap_surface_format
IsPreferredFormat(available_format) ==
  /\ available_format.format = "eB8G8R8A8Srgb"
  /\ available_format.colorSpace = "eSrgbNonlinear"

\* std::ranges::find_if from position i on: the first position whose element
\* satisfies the predicate, Len + 1 (the end iterator) when there is none
RECURSIVE FindPreferredFormat(_, _)
FindPreferredFormat(available_formats, i) ==
  IF i > Len(available_formats) THEN i
  ELSE IF IsPreferredFormat(available_formats[i]) THEN i
  ELSE FindPreferredFormat(available_formats, i + 1)

choose_swap_surface_format(available_formats) ==
  LET format == FindPreferredFormat(available_formats, 1)
  IN  IF format # Len(available_formats) + 1
        THEN available_formats[format]
        ELSE available_formats[1]

\* choose_swap_surface_format(surface_formats) for any non-empty list
ChooseSwapSurfaceFormat ==
  /\ call.fn = "none"
  /\ \E available_formats \in ListsOf(SurfaceFormats, MaxFormats) :
    Returns("choose_swap_surface_format", available_formats,
            choose_swap_surface_format(available_formats))

\* vk::PresentModeKHR values a surface may report
PresentModes == { "eImmediate", "eMailbox", "eFifo", "eFifoRelaxed" }

\* std::ranges::find from position i on: the first position that holds x,
\* Len + 1 (the end iterator) when there is none
RECURSIVE Find(_, _, _)
Find(range, x, i) ==
  IF i > Len(range) THEN i
  ELSE IF range[i] = x THEN i
  ELSE Find(range, x, i + 1)

\* choose_swap_presentation_mode, falling back to the first mode of the list
choose_swap_presentation_mode_first(available_presentation_modes) ==
  LET mode == Find(available_presentation_modes, "eMailbox", 1)
  IN  IF mode # Len(available_presentation_modes) + 1
        THEN available_presentation_modes[mode]
        ELSE IF available_presentation_modes # << >>
          THEN available_presentation_modes[1]
          ELSE "eFifo"

choose_swap_presentation_mode(available_presentation_modes) ==
  LET mode == Find(available_presentation_modes, "eMailbox", 1)
  IN  IF mode # Len(available_presentation_modes) + 1
        THEN available_presentation_modes[mode]
        ELSE "eFifo"

\* choose_swap_presentation_mode(surface_presentation_modes) for any list
ChooseSwapPresentationMode ==
  /\ call.fn = "none"
  /\ \E available_presentation_modes \in
       ListsOf(PresentModes, MaxModes) \cup { << >> } :
    Returns("choose_swap_presentation_mode", available_presentation_modes,
            choose_swap_presentation_mode(available_presentation_modes))

\* the function `fn` is applied to `args`, once, and returns the
\* std::expected `expected`: a value, or an error with a reason
ReturnsExpected(fn, args, expected) ==
  /\ call.fn = "none"
  /\ call' = [ fn |-> fn, args |-> args ]
  /\ returned' = expected
  /\ UNCHANGED << runVars, configVars, transferVars, lifetimeVars, targetVars, engineVars >>

\* a & b on unsigned integers
RECURSIVE BitAnd(_, _)
BitAnd(a, b) ==
  IF a = 0 \/ b = 0 THEN 0
  ELSE (a % 2) * (b % 2) + 2 * BitAnd(a \div 2, b \div 2)

\* vk::MemoryPropertyFlagBits: eDeviceLocal = 1, eHostVisible = 2
MemoryPropertyFlagBits == { 1, 2 }
\* vk::MemoryPropertyFlags: every mask over the flag bits
MemoryPropertyFlags == 0 .. 3

\* vk::PhysicalDeviceMemoryProperties: memoryTypes is a table of fixed length
\* of which the first memoryTypeCount entries are valid; entry i of the code
\* is memoryTypes[i + 1] here
MemoryProperties ==
  [ memoryTypeCount : 0 .. MaxMemoryTypes,
    memoryTypes : [ 1 .. MaxMemoryTypes -> MemoryPropertyFlags ] ]

\* the loop of find_memory_type from index i on, accepting a memory type
\* that has any of the requested property flags
RECURSIVE find_memory_type_any_flag_from(_, _, _, _)
find_memory_type_any_flag_from(i, type_filter, properties, memory_properties) ==
  IF i >= memory_properties.memoryTypeCount
    THEN [ value |-> 0, error |-> "search_for_memory_type_failed" ]
  ELSE IF /\ BitAnd(type_filter, 2 ^ i) # 0
          /\ \/ BitAnd(memory_properties.memoryTypes[i + 1], properties) # 0
             \/ properties = 0
    THEN [ value |-> i, error |-> "none" ]
  ELSE find_memory_type_any_flag_from(i + 1, type_filter, properties,
                                      memory_properties)

find_memory_type_any_flag(type_filter, properties, memory_properties) ==
  find_memory_type_any_flag_from(0, type_filter, properties, memory_properties)

\* the loop of find_memory_type from index i on
RECURSIVE find_memory_type_from(_, _, _, _)
find_memory_type_from(i, type_filter, properties, memory_properties) ==
  IF i >= memory_properties.memoryTypeCount
    THEN [ value |-> 0, error |-> "search_for_memory_type_failed" ]
  ELSE IF /\ BitAnd(type_filter, 2 ^ i) # 0
          /\ BitAnd(memory_properties.memoryTypes[i + 1], properties)
               = properties
    THEN [ value |-> i, error |-> "none" ]
  ELSE find_memory_type_from(i + 1, type_filter, properties, memory_properties)

find_memory_type(type_filter, properties, memory_properties) ==
  find_memory_type_from(0, type_filter, properties, memory_properties)

\* find_memory_type(type_filter, properties) on any physical device
FindMemoryType ==
  /\ call.fn = "none"
  /\ \E type_filter \in 0 .. (2 ^ MaxMemoryTypes - 1),
     properties \in MemoryPropertyFlags,
     memory_properties \in MemoryProperties :
    ReturnsExpected("find_memory_type",
                    [ type_filter |-> type_filter,
                      properties |-> properties,
                      memory_properties |-> memory_properties ],
                    find_memory_type(type_filter, properties,
                                     memory_properties))

\* the texture widths and heights stbi_load may report for a loaded image
TextureSides == (1 .. MaxTextureSide) \cup { 500, 511, 512, 513 }

\* std::floor(std::log2(n)) for an integer n >= 1: the double logarithm of an
\* int32 is never rounded across an integer, so this is the position of the
\* highest set bit
RECURSIVE FloorLog2(_)
FloorLog2(n) == IF n <= 1 THEN 0 ELSE 1 + FloorLog2(n \div 2)

\* the mip-level count, taken from the smaller side of the texture
mip_levels_of_smaller_side(texture_width, texture_height) ==
  FloorLog2(IF texture_width < texture_height
              THEN texture_width ELSE texture_height) + 1

\* the value create_texture_image stores in mip_levels_; the floor is in
\* 0 .. 30, which the cast to std::uint32_t leaves as it is
mip_levels(texture_width, texture_height) ==
  FloorLog2(Max(texture_width, texture_height)) + 1

\* create_texture_image computing mip_levels_ for any loaded texture
CreateTextureImageMipLevels ==
  /\ call.fn = "none"
  /\ \E texture_width \in TextureSides, texture_height \in TextureSides :
    Returns("create_texture_image",
            [ texture_width |-> texture_width,
              texture_height |-> texture_height ],
            mip_levels(texture_width, texture_height))

\* what a physical device may report for its queue families: per family,
\* whether queueFlags has eGraphics and what getSurfaceSupportKHR gives
has_graphics_queue_family(queue_families) ==
  \E i \in 1 .. Len(queue_families) : queue_families[i].graphics

\* the queue families of physical_device_, which pick_physical_device took
\* because is_device_suitable found, among others, a graphics family
QueueFamilies ==
  { queue_families \in
      ListsOf([ graphics : BOOLEAN, present : BOOLEAN ], MaxQueueFamilies) :
        has_graphics_queue_family(queue_families) }

\* std::optional<std::uint32_t>: << >> is std::nullopt
nullopt == << >>

\* the loop of get_queue_family_indices from family i on (the index of the
\* code is i - 1), without the branch for a family that supports both
RECURSIVE queue_family_loop_first_each(_, _, _, _, _)
queue_family_loop_first_each(queue_families, failing_query, i, graphics_index, presentation_index) ==
  IF i > Len(queue_families)
    THEN << graphics_index, presentation_index >>
  ELSE IF failing_query = i THEN << nullopt, nullopt >>
  ELSE queue_family_loop_first_each(
         queue_families, failing_query, i + 1,
         IF queue_families[i].graphics /\ graphics_index = nullopt
           THEN << i - 1 >> ELSE graphics_index,
         IF queue_families[i].present /\ presentation_index = nullopt
           THEN << i - 1 >> ELSE presentation_index)

\* the loop of get_queue_family_indices from family i on (the index of the
\* code is i - 1); failing_query is the family whose getSurfaceSupportKHR
\* fails, 0 when none does
RECURSIVE queue_family_loop(_, _, _, _, _)
queue_family_loop(queue_families, failing_query, i, graphics_index, presentation_index) ==
  IF i > Len(queue_families)
    THEN << graphics_index, presentation_index >>
  ELSE IF failing_query = i THEN << nullopt, nullopt >>
  ELSE IF queue_families[i].graphics /\ queue_families[i].present
    THEN << << i - 1 >>, << i - 1 >> >>
  ELSE queue_family_loop(
         queue_families, failing_query, i + 1,
         IF queue_families[i].graphics /\ graphics_index = nullopt
           THEN << i - 1 >> ELSE graphics_index,
         IF queue_families[i].present /\ presentation_index = nullopt
           THEN << i - 1 >> ELSE presentation_index)

get_queue_family_indices(queue_families, failing_query) ==
  queue_family_loop(queue_families, failing_query, 1, nullopt, nullopt)

\* create_logical_device: the indices, the error when one is missing, else
\* createDevice with one queue of the graphics family, which becomes
\* graphics_queue_, the queue draw_frame submits to and presents on
create_logical_device(queue_families, failing_query, create_device) ==
  LET indices == get_queue_family_indices(queue_families, failing_query)
  IN  IF indices[1] = nullopt \/ indices[2] = nullopt
        THEN [ value |-> [ indices |-> indices, graphics_queue_ |-> nullopt ],
               error |-> "missing_queue_families" ]
      ELSE IF create_device # "ok"
        THEN [ value |-> [ indices |-> indices, graphics_queue_ |-> nullopt ],
               error |-> "vk_error" ]
      ELSE [ value |-> [ indices |-> indices, graphics_queue_ |-> indices[1] ],
             error |-> "none" ]

\* create_logical_device() on any physical device and surface
CreateLogicalDevice ==
  /\ call.fn = "none"
  /\ \E queue_families \in QueueFamilies, create_device \in { "ok", "failed" } :
    \E failing_query \in 0 .. Len(queue_families) :
      ReturnsExpected("create_logical_device",
                      [ queue_families |-> queue_families,
                        failing_query |-> failing_query,
                        create_device |-> create_device ],
                      create_logical_device(queue_families, failing_query,
                                            create_device))

\* std::clamp(v, lo, hi) for lo <= hi
clamp(v, lo, hi) == IF v < lo THEN lo ELSE IF hi < v THEN hi ELSE v

\* choose_swap_extent that hands the framebuffer size on as it is
choose_swap_extent_unclamped(capabilities, framebuffer_size) ==
  IF capabilities.currentExtent.width # uint32_max
    THEN capabilities.currentExtent
    ELSE [ width |-> framebuffer_size[1], height |-> framebuffer_size[2] ]

\* choose_swap_extent: the surface's current extent unless its width is the
\* marker, else the framebuffer size clamped to the surface's limits
choose_swap_extent(capabilities, framebuffer_size) ==
  IF capabilities.currentExtent.width # uint32_max
    THEN capabilities.currentExtent
    ELSE [ width  |-> clamp(framebuffer_size[1],
                            capabilities.minImageExtent.width,
                            capabilities.maxImageExtent.width),
           height |-> clamp(framebuffer_size[2],
                            capabilities.minImageExtent.height,
                            capabilities.maxImageExtent.height) ]

\* the vk::Extent2D values with both sides in lo .. hi
Extents(lo, hi) == [ width : lo .. hi, height : lo .. hi ]

\* vk::SurfaceCapabilitiesKHR as far as choose_swap_extent reads them:
\* minImageExtent <= maxImageExtent on each axis, and currentExtent either
\* the marker on both axes or an extent within the limits
ExtentCapabilities ==
  { [ currentExtent |-> currentExtent, minImageExtent |-> minImageExtent,
      maxImageExtent |-> maxImageExtent ] :
      currentExtent \in Extents(1, MaxExtentSide - 1)
                          \cup { [ width |-> uint32_max,
                                   height |-> uint32_max ] },
      minImageExtent \in Extents(1, MaxExtentSide - 1),
      maxImageExtent \in Extents(1, MaxExtentSide - 1) }

\* choose_swap_extent(capabilities) for any surface limits and any
\* framebuffer size glfwGetFramebufferSize gives
ChooseSwapExtent ==
  /\ call.fn = "none"
  /\ \E capabilities \in ExtentCapabilities,
        framebuffer_size \in
          (0 .. MaxExtentSide) \X (0 .. MaxExtentSide) :
       /\ capabilities.minImageExtent.width <= capabilities.maxImageExtent.width
       /\ capabilities.minImageExtent.height
            <= capabilities.maxImageExtent.height
       /\ capabilities.currentExtent.width # uint32_max
            => /\ capabilities.currentExtent.width
                    \in capabilities.minImageExtent.width
                          .. capabilities.maxImageExtent.width
               /\ capabilities.currentExtent.height
                    \in capabilities.minImageExtent.height
                          .. capabilities.maxImageExtent.height
       /\ Returns("choose_swap_extent",
                  [ capabilities |-> capabilities,
                    framebuffer_size |-> framebuffer_size ],
                  choose_swap_extent(capabilities, framebuffer_size))

\* app.hpp:18, the layers asked for when enable_validation_layers
validation_layers == << "VK_LAYER_KHRONOS_validation" >>

\* what enumerateInstanceLayerProperties may list (layerName of each)
AvailableLayers ==
  ListsOf({ "VK_LAYER_KHRONOS_validation", "VK_LAYER_LUNARG_monitor" },
          MaxAvailable - 1) \cup { << >> }

\* what glfwGetRequiredInstanceExtensions may give: nothing, or the
\* surface extension followed by that of the platform
GlfwExtensions ==
  { << >>, << "VK_KHR_surface", "VK_KHR_xcb_surface" >>,
    << "VK_KHR_surface", "VK_KHR_wayland_surface" >> }

\* what enumerateInstanceExtensionProperties may list (extensionName of each)
AvailableExtensions ==
  ListsOf({ "VK_KHR_surface", "VK_KHR_xcb_surface", "VK_EXT_debug_utils" },
          MaxAvailable) \cup { << >> }

\* std::ranges::none_of(available, strcmp(proj(property), required_item) == 0)
none_of(available, required_item) ==
  ~ \E i \in 1 .. Len(available) : available[i] = required_item

\* vkutils::validate_required: the first required item that no available
\* property names ends the loop with eErrorUnknown; else `required` is
\* returned as it came
validate_required(required, available) ==
  IF \E i \in 1 .. Len(required) : none_of(available, required[i])
    THEN [ value |-> << >>, error |-> "eErrorUnknown" ]
    ELSE [ value |-> required, error |-> "none" ]

\* vkutils::locate on the vk::Result of an enumeration that failed, or
\* else on validate_required
locate_validated(enumerated, required, available) ==
  IF enumerated # "eSuccess" THEN [ value |-> << >>, error |-> enumerated ]
  ELSE validate_required(required, available)

\* get_required_layers: the list that is validated
required_layers(enable_validation_layers) ==
  IF enable_validation_layers THEN validation_layers ELSE << >>

\* get_required_extensions: the list that is validated
required_extensions(enable_validation_layers, glfw_extensions) ==
  glfw_extensions \o
    (IF enable_validation_layers THEN << "VK_EXT_debug_utils" >> ELSE << >>)

\* create_instance: get_required_layers, and then get_required_extensions,
\* and then create_vulkan_instance(layers, extensions); the value is the
\* pair of vectors as the chain leaves them
create_instance(build, context) ==
  LET layers ==
        locate_validated(context.enumerateInstanceLayerProperties,
                         required_layers(build), context.layers)
      extensions ==
        locate_validated(context.enumerateInstanceExtensionProperties,
                         required_extensions(build, context.glfw_extensions),
                         context.extensions)
  IN  IF layers.error # "none"
        THEN [ value |-> [ layers |-> << >>, extensions |-> << >> ],
               error |-> layers.error ]
      ELSE IF extensions.error # "none"
        THEN [ value |-> [ layers |-> layers.value, extensions |-> << >> ],
               error |-> extensions.error ]
      ELSE [ value |-> [ layers |-> layers.value,
                         extensions |-> extensions.value ],
             error |-> IF context.createInstance = "eSuccess" THEN "none"
                       ELSE context.createInstance ]

\* create_instance() in either build, on any Vulkan installation
CreateInstance ==
  /\ call.fn = "none"
  /\ \E enable_validation_layers \in BOOLEAN,
        layers \in AvailableLayers, extensions \in AvailableExtensions,
        glfw_extensions \in GlfwExtensions,
        layers_result \in { "eSuccess", "eErrorOutOfHostMemory" },
        extensions_result \in { "eSuccess", "eErrorOutOfHostMemory" },
        instance_result \in { "eSuccess", "eErrorIncompatibleDriver" } :
    LET context ==
          [ layers |-> layers, extensions |-> extensions,
            glfw_extensions |-> glfw_extensions,
            enumerateInstanceLayerProperties |-> layers_result,
            enumerateInstanceExtensionProperties |-> extensions_result,
            createInstance |-> instance_result ]
    IN  ReturnsExpected("create_instance",
                        [ enable_validation_layers |-> enable_validation_layers,
                          context |-> context ],
                        create_instance(enable_validation_layers, context))

\* begin_single_time_commands: the Vulkan calls it makes, and the error of
\* the one named by `failing`, after which no further call is made
begin_single_time_commands(failing) ==
  IF failing = "allocateCommandBuffers"
    THEN [ calls |-> << "allocateCommandBuffers" >>, error |-> "vk_error" ]
    ELSE [ calls |-> << "allocateCommandBuffers", "begin" >>,
           error |-> IF failing = "begin" THEN "vk_error" ELSE "none" ]

\* end_single_time_commands: end, submit to graphics_queue_ with a null
\* fence, graphics_queue_.waitIdle(), each only after the one before
end_single_time_commands(failing) ==
  IF failing = "end" THEN [ calls |-> << "end" >>, error |-> "vk_error" ]
  ELSE IF failing = "submit"
    THEN [ calls |-> << "end", "submit" >>, error |-> "vk_error" ]
  ELSE [ calls |-> << "end", "submit", "waitIdle" >>,
         error |-> IF failing = "waitIdle" THEN "vk_error" ELSE "none" ]

\* vk::ImageLayout values a caller may pass
ImageLayouts ==
  { "eUndefined", "eTransferDstOptimal", "eTransferSrcOptimal",
    "eShaderReadOnlyOptimal", "eColorAttachmentOptimal" }

\* the Vulkan calls of a one-shot operation, one of which may fail
SingleTimeCalls ==
  { "allocateCommandBuffers", "begin", "end", "submit", "waitIdle" }

\* transition_image_layout that records a barrier for every pair
transition_image_layout_any_pair(old_layout, new_layout, failing) ==
  LET begun == begin_single_time_commands(failing)
      ended == end_single_time_commands(failing)
  IN  IF begun.error # "none"
        THEN [ value |-> [ calls |-> begun.calls, barrier |-> << >> ],
               error |-> begun.error ]
      ELSE [ value |->
               [ calls |-> begun.calls \o << "pipelineBarrier" >>
                             \o ended.calls,
                 barrier |-> << [ srcAccessMask |-> "eTransferWrite",
                                  dstAccessMask |-> "eShaderRead",
                                  source_stage |-> "eTransfer",
                                  destination_stage |-> "eFragmentShader" ] >> ],
             error |-> ended.error ]

\* transition_image_layout: the one-shot command buffer, then the masks and
\* stages of the pair, or the error for a pair it does not know, then
\* pipelineBarrier and end_single_time_commands
transition_image_layout(old_layout, new_layout, failing) ==
  LET begun == begin_single_time_commands(failing)
      ended == end_single_time_commands(failing)
      Recorded(barrier) ==
        [ value |-> [ calls |-> begun.calls \o << "pipelineBarrier" >>
                                  \o ended.calls,
                      barrier |-> << barrier >> ],
          error |-> ended.error ]
  IN  IF begun.error # "none"
        THEN [ value |-> [ calls |-> begun.calls, barrier |-> << >> ],
               error |-> begun.error ]
      ELSE IF /\ old_layout = "eUndefined"
              /\ new_layout = "eTransferDstOptimal"
        THEN Recorded([ srcAccessMask |-> "none",
                        dstAccessMask |-> "eTransferWrite",
                        source_stage |-> "eTopOfPipe",
                        destination_stage |-> "eTransfer" ])
      ELSE IF /\ old_layout = "eTransferDstOptimal"
              /\ new_layout = "eShaderReadOnlyOptimal"
        THEN Recorded([ srcAccessMask |-> "eTransferWrite",
                        dstAccessMask |-> "eShaderRead",
                        source_stage |-> "eTransfer",
                        destination_stage |-> "eFragmentShader" ])
      ELSE [ value |-> [ calls |-> begun.calls, barrier |-> << >> ],
             error |-> "unsupported_layout_transition" ]

\* transition_image_layout(image, old_layout, new_layout, mip_levels) for
\* any pair of layouts
TransitionImageLayout ==
  /\ call.fn = "none"
  /\ \E old_layout \in ImageLayouts, new_layout \in ImageLayouts,
        failing \in SingleTimeCalls \cup { "none" } :
       ReturnsExpected("transition_image_layout",
                       [ old_layout |-> old_layout, new_layout |-> new_layout,
                         failing |-> failing ],
                       transition_image_layout(old_layout, new_layout,
                                               failing))

\* allocate_memory that allocates from memory type 0 when none qualifies
allocate_memory_from_type_zero(memory, requirements, properties, memory_properties, failing) ==
  LET found == find_memory_type(requirements.memoryTypeBits, properties,
                                memory_properties)
  IN  IF failing = "allocateMemory"
        THEN [ calls |-> << "find_memory_type", "allocateMemory" >>,
               memory |-> memory, memory_type |-> found.value,
               error |-> "vk_error" ]
      ELSE [ calls |-> << "find_memory_type", "allocateMemory" >>,
             memory |-> memory + 1, memory_type |-> found.value,
             error |-> "none" ]

\* allocate_memory(memory, requirements, properties): find_memory_type, and
\* then allocateMemory of that type, stored into `memory`; the handle an
\* allocation returns is new (memory + 1 stands for it)
allocate_memory(memory, requirements, properties, memory_properties, failing) ==
  LET found == find_memory_type(requirements.memoryTypeBits, properties,
                                memory_properties)
  IN  IF found.error # "none"
        THEN [ calls |-> << "find_memory_type" >>, memory |-> memory,
               memory_type |-> found.value, error |-> found.error ]
      ELSE IF failing = "allocateMemory"
        THEN [ calls |-> << "find_memory_type", "allocateMemory" >>,
               memory |-> memory, memory_type |-> found.value,
               error |-> "vk_error" ]
      ELSE [ calls |-> << "find_memory_type", "allocateMemory" >>,
             memory |-> memory + 1, memory_type |-> found.value,
             error |-> "none" ]

\* the chain create_buffer and create_image share: `create` the object and
\* store it, and then getMemoryRequirements and allocate_memory, and then
\* bindMemory(*memory, 0) with the handle `memory` holds by then
create_and_bind(create, memory, requirements, properties, memory_properties, failing) ==
  LET allocated == allocate_memory(memory, requirements, properties,
                                   memory_properties, failing)
      Result(calls, object, held, bound, error) ==
        [ value |-> [ calls |-> calls, object |-> object, memory |-> held,
                      memory_type |-> allocated.memory_type, bound |-> bound ],
          error |-> error ]
  IN  IF failing = create
        THEN Result(<< create >>, nullptr, memory, << >>, "vk_error")
      ELSE IF allocated.error # "none"
        THEN Result(<< create, "getMemoryRequirements" >> \o allocated.calls,
                    1, allocated.memory, << >>, allocated.error)
      ELSE Result(<< create, "getMemoryRequirements" >> \o allocated.calls
                    \o << "bindMemory" >>,
                  1, allocated.memory,
                  IF failing = "bindMemory" THEN << >>
                  ELSE << [ memory |-> allocated.memory, offset |-> 0 ] >>,
                  IF failing = "bindMemory" THEN "vk_error" ELSE "none")

create_buffer(memory, requirements, properties, memory_properties, failing) ==
  create_and_bind("createBuffer", memory, requirements, properties,
                  memory_properties, failing)

create_image(memory, requirements, properties, memory_properties, failing) ==
  create_and_bind("createImage", memory, requirements, properties,
                  memory_properties, failing)

\* create_buffer or create_image into a memory handle that is empty or
\* holds an earlier allocation, on any device that reports MaxMemoryTypes
\* types, for one or both of the property flags
CreateBufferOrImage ==
  /\ call.fn = "none"
  /\ \E memory \in { nullptr, 1 },
        memoryTypeBits \in 0 .. (2 ^ MaxMemoryTypes - 1),
        properties \in { 1, 3 },
        memoryTypes \in [ 1 .. MaxMemoryTypes -> MemoryPropertyFlags ],
        failing \in { "none", "create", "allocateMemory", "bindMemory" } :
       LET memory_properties == [ memoryTypeCount |-> MaxMemoryTypes,
                                  memoryTypes |-> memoryTypes ]
           args(create) ==
             [ memory |-> memory, memoryTypeBits |-> memoryTypeBits,
               properties |-> properties,
               memory_properties |-> memory_properties,
               create |-> create,
               failing |-> IF failing = "create" THEN create ELSE failing ]
       IN  \/ ReturnsExpected("create_buffer", args("createBuffer"),
                create_buffer(memory, [ memoryTypeBits |-> memoryTypeBits ],
                              properties, memory_properties,
                              args("createBuffer").failing))
           \/ ReturnsExpected("create_image", args("createImage"),
                create_image(memory, [ memoryTypeBits |-> memoryTypeBits ],
                             properties, memory_properties,
                             args("createImage").failing))

UnitNext ==
  \/ CreateBufferOrImage
  \/ TransitionImageLayout
  \/ ChooseSwapExtent
  \/ CreateInstance
  \/ CreateLogicalDevice
  \/ ChooseSwapMinImageCount
  \/ ChooseSwapSurfaceFormat
  \/ ChooseSwapPresentationMode
  \/ FindMemoryType
  \/ CreateTextureImageMipLevels

UnitSpec == Init /\ [][UnitNext]_vars

\* ------------------------------------------------------------ configuration
\* the vk::SwapchainCreateInfoKHR of create_swapchain(capabilities, modes):
\* the fields that depend on the surface or on the members
swapchain_info(surface_capabilities, surface_presentation_modes, config) ==
  [ minImageCount |->
      choose_swap_min_image_count(surface_capabilities.minImageCount,
                                  surface_capabilities.maxImageCount),
    imageFormat |-> config.swapchain_surface_format_.format,
    imageColorSpace |-> config.swapchain_surface_format_.colorSpace,
    imageExtent |-> config.swapchain_extent_,
    presentMode |-> choose_swap_presentation_mode(surface_presentation_modes),
    oldSwapchain |-> nullptr ]

\* create_swapchain(): a failing surface query leaves the members alone;
\* else the members are assigned, then the swapchain is created from them
create_swapchain_config(config, report, outcome) ==
  IF outcome = "query_failed" THEN config
  ELSE LET chosen ==
             [ config EXCEPT
                 !.swapchain_extent_ =
                   choose_swap_extent(report.capabilities, report.framebuffer),
                 !.swapchain_surface_format_ =
                   choose_swap_surface_format(report.formats) ]
       IN  [ chosen EXCEPT
               !.swapchain_info =
                 IF outcome = "create_failed" THEN << >>
                 ELSE << swapchain_info(report.capabilities,
                                        report.present_modes, chosen) >> ]

\* recreate_swapchain() that asks for one image more when the swapchain it
\* replaces was created with the count it has chosen
recreate_swapchain_config_one_more_image(config, report, outcome) ==
  LET created == create_swapchain_config(
                   [ config EXCEPT !.swapchain_info = << >> ], report, outcome)
  IN  IF outcome = "wait_idle_failed" THEN config
      ELSE IF /\ created.swapchain_info # << >>
              /\ config.swapchain_info # << >>
              /\ config.swapchain_info[1].minImageCount
                   = created.swapchain_info[1].minImageCount
        THEN [ created EXCEPT !.swapchain_info[1].minImageCount = @ + 1 ]
        ELSE created

\* recreate_swapchain(): a failing waitIdle returns before anything is
\* touched; else cleanup_swapchain() and create_swapchain()
recreate_swapchain_config(config, report, outcome) ==
  IF outcome = "wait_idle_failed" THEN config
  ELSE create_swapchain_config(
         [ config EXCEPT !.swapchain_info = << >> ], report, outcome)

\* what the surface and the window may report
SurfaceReports ==
  { [ capabilities |->
        [ currentExtent  |-> currentExtent,
          minImageExtent |-> [ width |-> 1, height |-> 1 ],
          maxImageExtent |-> [ width |-> 4096, height |-> 4096 ],
          minImageCount  |-> counts[1],
          maxImageCount  |-> counts[2] ],
      formats |-> formats,
      present_modes |-> present_modes,
      framebuffer |-> framebuffer_size ] :
    currentExtent \in { [ width |-> uint32_max, height |-> uint32_max ],
                        [ width |-> 800, height |-> 600 ] },
    counts \in { << 2, 0 >>, << 2, 2 >> },
    formats \in
      { << [ format |-> "eB8G8R8A8Unorm", colorSpace |-> "eSrgbNonlinear" ] >>,
        << [ format |-> "eB8G8R8A8Unorm", colorSpace |-> "eSrgbNonlinear" ],
           [ format |-> "eB8G8R8A8Srgb", colorSpace |-> "eSrgbNonlinear" ] >> },
    present_modes \in { << "eFifo" >>, << "eFifo", "eMailbox" >> },
    framebuffer_size \in { << 800, 600 >>, << 5000, 3000 >> } }

\* the window is resized or the surface reports something else
SurfaceChanges ==
  /\ surface_report' \in SurfaceReports
  /\ UNCHANGED << runVars, call, returned, swapchain_config, transferVars,
                  lifetimeVars, targetVars, engineVars >>

\* the create_swapchain step of init_vulkan
ConfigCreateSwapchain ==
  /\ call.fn = "none"
  /\ \E outcome \in CreateSwapchainOutcomes :
       /\ swapchain_config' =
            create_swapchain_config(swapchain_config, surface_report, outcome)
       /\ returned' = [ value |-> 0,
                        error |-> IF outcome = "ok" THEN "none"
                                                    ELSE "vk_error" ]
  /\ call' = [ fn |-> "create_swapchain", args |-> surface_report,
               unchanged |-> FALSE ]
  /\ UNCHANGED << runVars, surface_report, transferVars, lifetimeVars, targetVars, engineVars >>

\* recreate_swapchain() while the program runs; `unchanged` says that the
\* surface and the window report what they reported when the swapchain it
\* replaces was made
ConfigRecreateSwapchain ==
  /\ call.fn \in { "create_swapchain", "recreate_swapchain" }
  /\ returned.error = "none"
  /\ \E outcome \in CreateSwapchainOutcomes \cup { "wait_idle_failed" } :
       /\ swapchain_config' =
            recreate_swapchain_config(swapchain_config, surface_report,
                                      outcome)
       /\ returned' = [ value |-> 0,
                        error |-> IF outcome = "ok" THEN "none"
                                                    ELSE "vk_error" ]
  /\ call' = [ fn |-> "recreate_swapchain", args |-> surface_report,
               unchanged |-> (call.args = surface_report) ]
  /\ UNCHANGED << runVars, surface_report, transferVars, lifetimeVars, targetVars, engineVars >>

ConfigNext ==
  \/ SurfaceChanges
  \/ ConfigCreateSwapchain
  \/ ConfigRecreateSwapchain

ConfigSpec == Init /\ [][ConfigNext]_vars

\* ------------------------------------------------------------ lifetimes
Create(handle) == [ op |-> "create", handle |-> handle ]
Destroy(handle) == [ op |-> "destroy", handle |-> handle ]
Store(handle) == [ op |-> "store", handle |-> handle ]

\* a function that copies through a staging buffer: the two locals, then the
\* two members, then the locals end in the reverse order of their declaration
WithStaging(object, memory) ==
  << Create("staging_buffer"), Create("staging_buffer_memory"),
     Create(object), Create(memory),
     Destroy("staging_buffer_memory"), Destroy("staging_buffer") >>

\* the steps of init_vulkan that fill the handles: create_logical_device,
\* create_color_resources, create_depth_resources, create_texture_image,
\* create_vertex_buffer, create_index_buffer, create_uniform_buffers
LifetimeProgram ==
  << Create("device_"),
     Create("color_image_"), Create("color_image_memory_"),
     Create("depth_image_"), Create("depth_image_memory_") >>
  \o WithStaging("texture_image_", "texture_image_memory_")
  \o WithStaging("vertex_buffer_", "vertex_buffer_memory_")
  \o WithStaging("index_buffer_", "index_buffer_memory_")
  \o << Create("uniform_buffers_"), Create("uniform_buffers_memory_") >>

\* create_image on a member that holds an object: the new image is stored
\* into the image member, the new memory into the memory member, the
\* temporary of allocate_memory ends, the temporary of create_image ends
ReplaceTarget(image, memory) ==
  << Store(image), Store(memory),
     Destroy(memory \o ".replaced"), Destroy(image \o ".replaced") >>

\* create_color_resources and create_depth_resources in recreate_swapchain
RecreateProgram ==
  ReplaceTarget("color_image_", "color_image_memory_")
  \o ReplaceTarget("depth_image_", "depth_image_memory_")

\* the order in which what is alive ends when run() is left: temporaries and
\* locals of the function that returns, then the members in the reverse
\* order of their declaration
DestructionOrder ==
  Temporaries
  \o << "staging_buffer_memory", "staging_buffer" >>
  \o [ i \in 1 .. Len(Members) |-> Members[Len(Members) + 1 - i] ]

\* the object a handle gets when it held generation g
NewGeneration(g) == IF g = 1 THEN 2 ELSE 1

\* what the lifetime steps leave alone
LifetimeFrame ==
  UNCHANGED << runVars, call, returned, configVars, transferVars, engineVars,
               targetVars >>

\* a step of the setup that creates an object and stores it into an empty
\* handle; with the first one the build's vk::raii move assignment is fixed:
\* it either releases the old object at once or swaps it into the source
LifetimeCreate ==
  /\ lifetime_at.phase = "init"
  /\ LifetimeProgram[lifetime_at.step].op = "create"
  /\ \E move \in { "releases", "swaps" } :
       raii_move' = IF raii_move = "unset" THEN move ELSE raii_move
  /\ \/ /\ holds' = [ holds EXCEPT
                       ![LifetimeProgram[lifetime_at.step].handle] = 1 ]
        /\ lifetime_at' =
             IF lifetime_at.step = Len(LifetimeProgram)
               THEN [ phase |-> "running", step |-> 0 ]
               ELSE [ lifetime_at EXCEPT !.step = @ + 1 ]
     \/ /\ lifetime_at' = [ phase |-> "unwinding", step |-> 0 ]
        /\ UNCHANGED holds
  /\ LifetimeFrame

\* a function of the setup returns: one of its locals ends
LifetimeReturn ==
  /\ lifetime_at.phase = "init"
  /\ LifetimeProgram[lifetime_at.step].op = "destroy"
  /\ holds' = [ holds EXCEPT
                 ![LifetimeProgram[lifetime_at.step].handle] = nullptr ]
  /\ lifetime_at' = [ lifetime_at EXCEPT !.step = @ + 1 ]
  /\ UNCHANGED raii_move
  /\ LifetimeFrame

\* recreate_swapchain reaches create_color_resources
LifetimeRecreate ==
  /\ lifetime_at.phase = "running"
  /\ lifetime_at' = [ phase |-> "recreate", step |-> 1 ]
  /\ UNCHANGED << holds, raii_move >>
  /\ LifetimeFrame

\* store_into on a member that holds an object: out = std::move(value)
LifetimeStore ==
  /\ lifetime_at.phase = "recreate"
  /\ RecreateProgram[lifetime_at.step].op = "store"
  /\ LET handle == RecreateProgram[lifetime_at.step].handle
     IN  \/ /\ holds' =
                 IF raii_move = "swaps"
                   THEN [ holds EXCEPT
                            ![handle] = NewGeneration(@),
                            ![handle \o ".replaced"] = holds[handle] ]
                   ELSE [ holds EXCEPT ![handle] = NewGeneration(@) ]
            /\ lifetime_at' = [ lifetime_at EXCEPT !.step = @ + 1 ]
         \/ /\ lifetime_at' = [ phase |-> "unwinding", step |-> 0 ]
            /\ UNCHANGED holds
  /\ UNCHANGED raii_move
  /\ LifetimeFrame

\* the full expression that made a temporary ends
LifetimeEndOfExpression ==
  /\ lifetime_at.phase = "recreate"
  /\ RecreateProgram[lifetime_at.step].op = "destroy"
  /\ holds' = [ holds EXCEPT
                 ![RecreateProgram[lifetime_at.step].handle] = nullptr ]
  /\ lifetime_at' =
       IF lifetime_at.step = Len(RecreateProgram)
         THEN [ phase |-> "running", step |-> 0 ]
         ELSE [ lifetime_at EXCEPT !.step = @ + 1 ]
  /\ UNCHANGED raii_move
  /\ LifetimeFrame

\* main_loop returns
LifetimeClose ==
  /\ lifetime_at.phase = "running"
  /\ lifetime_at' = [ phase |-> "unwinding", step |-> 0 ]
  /\ UNCHANGED << holds, raii_move >>
  /\ LifetimeFrame

\* run() is left and the app object ends: what is alive ends in
\* DestructionOrder, one handle at a step
LifetimeDestroy ==
  /\ lifetime_at.phase = "unwinding"
  /\ LET alive == { i \in 1 .. Len(DestructionOrder) :
                      holds[DestructionOrder[i]] # nullptr }
     IN  IF alive = {}
           THEN /\ lifetime_at' = [ phase |-> "destroyed", step |-> 0 ]
                /\ UNCHANGED holds
           ELSE /\ holds' =
                     [ holds EXCEPT
                         ![DestructionOrder[CHOOSE i \in alive :
                                              \A j \in alive : i <= j]]
                           = nullptr ]
                /\ UNCHANGED lifetime_at
  /\ UNCHANGED raii_move
  /\ LifetimeFrame

LifetimeNext ==
  \/ LifetimeCreate
  \/ LifetimeReturn
  \/ LifetimeRecreate
  \/ LifetimeStore
  \/ LifetimeEndOfExpression
  \/ LifetimeClose
  \/ LifetimeDestroy

LifetimeSpec == Init /\ [][LifetimeNext]_vars

\* ------------------------------------------------------------ transfer engine
\* the operations that use a one-shot command buffer, in the order
\* create_texture_image and then create_vertex_buffer call them
TransferOps == << "transition_image_layout", "copy_buffer_to_image",
                  "generate_mip_maps", "copy_buffer" >>

\* what the steps of a transfer operation leave alone
EngineFrame ==
  UNCHANGED << runVars, call, returned, configVars, lifetimeVars, targetVars >>

\* a step returns an error: the chain of and_then ends, and the command
\* buffer, a local of the step, is freed
TransferFails ==
  /\ transfer' = [ transfer EXCEPT !.step = "failed" ]
  /\ single_time_buffer' = "none"

\* one more Vulkan call of the operation under way
Called(calls) == recorded' = recorded \o calls

\* create_texture_image up to create_image: stbi_load gives the size,
\* mip_levels_ is computed from it, the staging buffer is filled and
\* texture_image_ is created with every level in eUndefined
LoadTexture ==
  /\ transfer.step = "load"
  /\ \/ \E texture_width \in TextureSides, texture_height \in TextureSides :
          LET levels == mip_levels(texture_width, texture_height)
          IN  /\ texture' =
                   [ width |-> texture_width, height |-> texture_height,
                     mip_levels_ |-> levels,
                     layouts |-> [ level \in 1 .. levels |-> "eUndefined" ],
                     written |-> [ level \in 1 .. levels |-> << >> ] ]
              /\ transfer' = [ op |-> 1, step |-> "begin" ]
              /\ UNCHANGED single_time_buffer
     \/ TransferFails /\ UNCHANGED texture
  /\ UNCHANGED << recorded, mip, single_time_unresolved >>
  /\ EngineFrame

\* the operation calls begin_single_time_commands; generate_mip_maps first
\* asks the format for linear filtering and returns an error without it
BeginOneShot ==
  /\ transfer.step = "begin"
  /\ \/ \E failing \in { "none", "allocateCommandBuffers", "begin" } :
          LET begun == begin_single_time_commands(failing)
          IN  /\ recorded' = [ i \in 1 .. Len(begun.calls) |->
                                 [ call |-> begun.calls[i] ] ]
              /\ IF begun.error # "none"
                   THEN TransferFails /\ UNCHANGED mip
                   ELSE /\ single_time_buffer' = "recording"
                        /\ mip' = [ mip_level |-> 1,
                                    mip_width |-> texture.width,
                                    mip_height |-> texture.height ]
                        /\ transfer' =
                             [ transfer EXCEPT !.step =
                                 IF TransferOps[transfer.op]
                                      # "generate_mip_maps"
                                   THEN "record"
                                 ELSE IF 1 < texture.mip_levels_
                                   THEN "mip_to_source" ELSE "mip_last" ]
     \/ /\ TransferOps[transfer.op] = "generate_mip_maps"
        /\ TransferFails
        /\ UNCHANGED << recorded, mip >>
  /\ UNCHANGED << texture, single_time_unresolved >>
  /\ EngineFrame

\* a pipelineBarrier as recorded: the levels it covers, its layouts, and
\* the layouts those levels have when the command runs
Barrier(baseMipLevel, levelCount, oldLayout, newLayout) ==
  [ call |-> "pipelineBarrier", baseMipLevel |-> baseMipLevel,
    levelCount |-> levelCount, oldLayout |-> oldLayout,
    newLayout |-> newLayout,
    actual |-> { texture.layouts[level + 1] :
                   level \in baseMipLevel .. (baseMipLevel + levelCount - 1) } ]

\* the layouts after a barrier over the levels from baseMipLevel on
Transitioned(baseMipLevel, levelCount, newLayout) ==
  [ level \in 1 .. Len(texture.layouts) |->
      IF level - 1 \in baseMipLevel .. (baseMipLevel + levelCount - 1)
        THEN newLayout ELSE texture.layouts[level] ]

\* transition_image_layout(texture_image_, eUndefined, eTransferDstOptimal,
\* mip_levels_): one barrier over all the levels
RecordTransitionImageLayout ==
  /\ transfer.step = "record"
  /\ TransferOps[transfer.op] = "transition_image_layout"
  /\ Called(<< Barrier(0, texture.mip_levels_, "eUndefined",
                       "eTransferDstOptimal") >>)
  /\ texture' = [ texture EXCEPT !.layouts =
                    Transitioned(0, texture.mip_levels_,
                                 "eTransferDstOptimal") ]
  /\ transfer' = [ transfer EXCEPT !.step = "end" ]
  /\ UNCHANGED << mip, transferVars >>
  /\ EngineFrame

\* copy_buffer_to_image: the staging buffer into level 0, at full size
RecordCopyBufferToImage ==
  /\ transfer.step = "record"
  /\ TransferOps[transfer.op] = "copy_buffer_to_image"
  /\ Called(<< [ call |-> "copyBufferToImage", mipLevel |-> 0,
                 dstImageLayout |-> "eTransferDstOptimal",
                 actual |-> texture.layouts[1],
                 imageExtent |-> << texture.width, texture.height >> ] >>)
  /\ texture' = [ texture EXCEPT !.written[1] =
                    << texture.width, texture.height >> ]
  /\ transfer' = [ transfer EXCEPT !.step = "end" ]
  /\ UNCHANGED << mip, transferVars >>
  /\ EngineFrame

\* copy_buffer: the staging buffer into the vertex buffer
RecordCopyBuffer ==
  /\ transfer.step = "record"
  /\ TransferOps[transfer.op] = "copy_buffer"
  /\ Called(<< [ call |-> "copyBuffer", srcOffset |-> 0, dstOffset |-> 0 ] >>)
  /\ transfer' = [ transfer EXCEPT !.step = "end" ]
  /\ UNCHANGED << texture, mip, transferVars >>
  /\ EngineFrame

\* generate_mip_maps, loop body: level mip_level - 1 from eTransferDstOptimal
\* to eTransferSrcOptimal
RecordMipBarrierToSource ==
  /\ transfer.step = "mip_to_source"
  /\ Called(<< Barrier(mip.mip_level - 1, 1, "eTransferDstOptimal",
                       "eTransferSrcOptimal") >>)
  /\ texture' = [ texture EXCEPT !.layouts =
                    Transitioned(mip.mip_level - 1, 1,
                                 "eTransferSrcOptimal") ]
  /\ transfer' = [ transfer EXCEPT !.step = "mip_blit" ]
  /\ UNCHANGED << mip, transferVars >>
  /\ EngineFrame

\* RecordMipBlit with a destination of half the size, rounded down to 0
RecordMipBlitHalved ==
  /\ transfer.step = "mip_blit"
  /\ LET destination ==
           << mip.mip_width \div 2, mip.mip_height \div 2 >>
     IN  /\ Called(<< [ call |-> "blitImage",
                        srcLevel |-> mip.mip_level - 1,
                        dstLevel |-> mip.mip_level,
                        srcImageLayout |-> "eTransferSrcOptimal",
                        dstImageLayout |-> "eTransferDstOptimal",
                        srcActual |-> texture.layouts[mip.mip_level],
                        dstActual |-> texture.layouts[mip.mip_level + 1],
                        srcExtent |-> << mip.mip_width, mip.mip_height >>,
                        srcWritten |-> texture.written[mip.mip_level],
                        dstExtent |-> destination ] >>)
         /\ texture' = [ texture EXCEPT !.written[mip.mip_level + 1] =
                           destination ]
  /\ transfer' = [ transfer EXCEPT !.step = "mip_to_shader_read" ]
  /\ UNCHANGED << mip, transferVars >>
  /\ EngineFrame

\* generate_mip_maps, loop body: blitImage from level mip_level - 1, of
\* mip_width x mip_height, into level mip_level, of half that and at least 1
RecordMipBlit ==
  /\ transfer.step = "mip_blit"
  /\ LET destination ==
           << IF mip.mip_width > 1 THEN mip.mip_width \div 2 ELSE 1,
              IF mip.mip_height > 1 THEN mip.mip_height \div 2 ELSE 1 >>
     IN  /\ Called(<< [ call |-> "blitImage",
                        srcLevel |-> mip.mip_level - 1,
                        dstLevel |-> mip.mip_level,
                        srcImageLayout |-> "eTransferSrcOptimal",
                        dstImageLayout |-> "eTransferDstOptimal",
                        srcActual |-> texture.layouts[mip.mip_level],
                        dstActual |-> texture.layouts[mip.mip_level + 1],
                        srcExtent |-> << mip.mip_width, mip.mip_height >>,
                        srcWritten |-> texture.written[mip.mip_level],
                        dstExtent |-> destination ] >>)
         /\ texture' = [ texture EXCEPT !.written[mip.mip_level + 1] =
                           destination ]
  /\ transfer' = [ transfer EXCEPT !.step = "mip_to_shader_read" ]
  /\ UNCHANGED << mip, transferVars >>
  /\ EngineFrame

\* generate_mip_maps, end of the loop body: level mip_level - 1 from
\* eTransferSrcOptimal to eShaderReadOnlyOptimal, the sizes are halved and
\* the loop goes on to the next level or ends
RecordMipBarrierToShaderRead ==
  /\ transfer.step = "mip_to_shader_read"
  /\ Called(<< Barrier(mip.mip_level - 1, 1, "eTransferSrcOptimal",
                       "eShaderReadOnlyOptimal") >>)
  /\ texture' = [ texture EXCEPT !.layouts =
                    Transitioned(mip.mip_level - 1, 1,
                                 "eShaderReadOnlyOptimal") ]
  /\ mip' = [ mip_level |-> mip.mip_level + 1,
              mip_width |-> IF mip.mip_width > 1 THEN mip.mip_width \div 2
                                                 ELSE mip.mip_width,
              mip_height |-> IF mip.mip_height > 1 THEN mip.mip_height \div 2
                                                   ELSE mip.mip_height ]
  /\ transfer' = [ transfer EXCEPT !.step =
                     IF mip.mip_level + 1 < texture.mip_levels_
                       THEN "mip_to_source" ELSE "mip_last" ]
  /\ UNCHANGED transferVars
  /\ EngineFrame

\* generate_mip_maps after the loop: level mip_levels - 1 from
\* eTransferDstOptimal to eShaderReadOnlyOptimal
RecordLastMipBarrier ==
  /\ transfer.step = "mip_last"
  /\ Called(<< Barrier(texture.mip_levels_ - 1, 1, "eTransferDstOptimal",
                       "eShaderReadOnlyOptimal") >>)
  /\ texture' = [ texture EXCEPT !.layouts =
                    Transitioned(texture.mip_levels_ - 1, 1,
                                 "eShaderReadOnlyOptimal") ]
  /\ transfer' = [ transfer EXCEPT !.step = "end" ]
  /\ UNCHANGED << mip, transferVars >>
  /\ EngineFrame

\* end_single_time_commands up to the submit: command_buffer.end(), then
\* graphics_queue_.submit of the one command buffer, no semaphores, with
\* nullptr for the fence
EndAndSubmitOneShot ==
  /\ transfer.step = "end"
  /\ \E failing \in { "none", "end", "submit" } :
       LET ended == end_single_time_commands(failing)
           made  == IF failing = "none" THEN SubSeq(ended.calls, 1, 2)
                                        ELSE ended.calls
       IN  /\ Called([ i \in 1 .. Len(made) |->
                         IF made[i] = "submit"
                           THEN [ call |-> "submit", commandBufferCount |-> 1,
                                  waitSemaphoreCount |-> 0,
                                  signalSemaphoreCount |-> 0,
                                  fence |-> nullptr ]
                           ELSE [ call |-> made[i] ] ])
           /\ IF failing = "none"
                THEN /\ single_time_buffer' = "submitted"
                     /\ single_time_unresolved' = single_time_unresolved + 1
                     /\ transfer' = [ transfer EXCEPT !.step = "wait_idle" ]
                ELSE TransferFails /\ UNCHANGED single_time_unresolved
  /\ UNCHANGED << texture, mip >>
  /\ EngineFrame

\* WaitIdleOneShot that does not wait for the queue
WaitIdleOneShotReturnsAtOnce ==
  /\ transfer.step = "wait_idle"
  /\ Called(<< [ call |-> "waitIdle" ] >>)
  /\ single_time_buffer' = "none"
  /\ transfer' = [ transfer EXCEPT !.step = "returned" ]
  /\ UNCHANGED << texture, mip, single_time_unresolved >>
  /\ EngineFrame

\* the end of end_single_time_commands: graphics_queue_.waitIdle() returns
\* success once the queue has nothing left to run, or returns an error;
\* the operation returns what it returned and the command buffer is freed
WaitIdleOneShot ==
  /\ transfer.step = "wait_idle"
  /\ Called(<< [ call |-> "waitIdle" ] >>)
  /\ \/ /\ single_time_unresolved = 0
        /\ single_time_buffer' = "none"
        /\ transfer' = [ transfer EXCEPT !.step = "returned" ]
     \/ TransferFails
  /\ UNCHANGED << texture, mip, single_time_unresolved >>
  /\ EngineFrame

\* the and_then after an operation that returned success: the next
\* operation is called, or the last one is through
NextTransfer ==
  /\ transfer.step = "returned"
  /\ IF transfer.op < Len(TransferOps)
       THEN /\ transfer' = [ op |-> transfer.op + 1, step |-> "begin" ]
            /\ recorded' = << >>
       ELSE /\ transfer' = [ transfer EXCEPT !.step = "done" ]
            /\ UNCHANGED recorded
  /\ UNCHANGED << texture, mip, transferVars >>
  /\ EngineFrame

TransferNext ==
  \/ LoadTexture
  \/ BeginOneShot
  \/ RecordTransitionImageLayout
  \/ RecordCopyBufferToImage
  \/ RecordCopyBuffer
  \/ RecordMipBarrierToSource
  \/ RecordMipBlit
  \/ RecordMipBarrierToShaderRead
  \/ RecordLastMipBarrier
  \/ EndAndSubmitOneShot
  \/ WaitIdleOneShot
  \/ NextTransfer
  \/ GpuRetireSingleTime

TransferSpec == Init /\ [][TransferNext]_vars

\* ------------------------------------------------------------ render targets
\* what the steps of the resize cycle leave alone
TargetFrame ==
  UNCHANGED << runVars, call, returned, surface_report, transferVars,
               lifetimeVars, engineVars >>

\* create_image then create_image_view stored into the view member, as
\* create_color_resources and create_depth_resources do for their target:
\* the image is stored as soon as it exists, the view only at the end
CreateTargetOutcomes == { "ok", "find_depth_format_failed",
                          "create_image_failed", "allocate_memory_failed",
                          "create_image_view_failed" }

\* create_target that leaves the view member with the view it holds
create_target_view_kept(held, image, view, extent, outcome) ==
  IF outcome \in { "find_depth_format_failed", "create_image_failed" }
    THEN held
    ELSE [ held EXCEPT ![image] = extent ]

create_target(held, image, view, extent, outcome) ==
  IF outcome \in { "find_depth_format_failed", "create_image_failed" }
    THEN held
    ELSE LET stored == [ held EXCEPT ![image] = extent ]
         IN  IF outcome = "ok"
               THEN [ stored EXCEPT ![view] = stored[image] ]
               ELSE stored

\* create_color_resources(): the image has swapchain_extent_
create_color_resources(held, config, outcome) ==
  create_target(held, "color_image_", "color_image_view_",
                config.swapchain_extent_, outcome)

\* create_depth_resources(): find_depth_format first, then as above
create_depth_resources(held, config, outcome) ==
  create_target(held, "depth_image_", "depth_image_view_",
                config.swapchain_extent_, outcome)

\* the step at `at` ran with `outcome`: the chain goes on at `next`, or
\* the error ends init_vulkan or draw_frame and with it the loop
RenderStep(outcome, next) ==
  render' = [ render EXCEPT !.at = IF outcome = "ok" THEN next ELSE "report" ]

\* create_swapchain() and create_image_views() of init_vulkan
RenderCreateSwapchain ==
  /\ render.at = "create_swapchain"
  /\ \E outcome \in CreateSwapchainOutcomes \cup { "image_views_failed" } :
       /\ swapchain_config' =
            create_swapchain_config(swapchain_config, surface_report,
              IF outcome = "image_views_failed" THEN "ok" ELSE outcome)
       /\ RenderStep(outcome, "create_color_resources")
  /\ UNCHANGED targets
  /\ TargetFrame

\* create_color_resources() of init_vulkan
RenderCreateColorResources ==
  /\ render.at = "create_color_resources"
  /\ \E outcome \in CreateTargetOutcomes \ { "find_depth_format_failed" } :
       /\ targets' = create_color_resources(targets, swapchain_config, outcome)
       /\ RenderStep(outcome, "create_depth_resources")
  /\ UNCHANGED swapchain_config
  /\ TargetFrame

\* create_depth_resources() of init_vulkan; the steps after it do not
\* touch the targets, and main_loop begins
RenderCreateDepthResources ==
  /\ render.at = "create_depth_resources"
  /\ \E outcome \in CreateTargetOutcomes \cup { "later_step_failed" } :
       /\ targets' = create_depth_resources(targets, swapchain_config,
            IF outcome = "later_step_failed" THEN "ok" ELSE outcome)
       /\ RenderStep(outcome, "acquire_next_image")
  /\ UNCHANGED swapchain_config
  /\ TargetFrame

\* main_loop's test, and draw_frame up to the result of acquireNextImage:
\* out of date recreates, an error returns, else the frame is recorded
RenderAcquireNextImage ==
  /\ render.at = "acquire_next_image"
  /\ \E outcome \in { "should_close", "wait_for_fences_failed",
                      "eErrorOutOfDateKHR", "next_image_acquire_failed",
                      "eSuccess", "eSuboptimalKHR" } :
       render' = [ render EXCEPT !.at =
         CASE outcome = "should_close" -> "cleanup"
           [] outcome = "eErrorOutOfDateKHR" -> "recreate_swapchain"
           [] outcome \in { "eSuccess", "eSuboptimalKHR" }
                -> "record_command_buffer"
           [] OTHER -> "report" ]
  /\ UNCHANGED << targets, swapchain_config >>
  /\ TargetFrame

\* record_command_buffer(image_index): the render area, the viewport and the
\* scissor are swapchain_extent_, the attachments color_image_view_ and
\* depth_image_view_
RenderRecordCommandBuffer ==
  /\ render.at = "record_command_buffer"
  /\ render' = [ at |-> "present",
                 frame |-> << [ renderArea |-> swapchain_config.swapchain_extent_,
                                color_attachment |-> targets["color_image_view_"],
                                depth_attachment |-> targets["depth_image_view_"] ] >> ]
  /\ UNCHANGED << targets, swapchain_config >>
  /\ TargetFrame

\* the submission and presentKHR: suboptimal, out of date or a flagged
\* resize recreates, an error returns, else draw_frame returns success
RenderPresent ==
  /\ render.at = "present"
  /\ \E outcome \in { "submit_failed", "recreate", "queue_present_failed",
                      "eSuccess" } :
       render' = [ render EXCEPT !.at =
         CASE outcome = "recreate" -> "recreate_swapchain"
           [] outcome = "eSuccess" -> "acquire_next_image"
           [] OTHER -> "report" ]
  /\ UNCHANGED << targets, swapchain_config >>
  /\ TargetFrame

\* recreate_swapchain() up to create_image_views(): the wait for the
\* device, cleanup_swapchain(), create_swapchain(), create_image_views()
RenderRecreateSwapchain ==
  /\ render.at = "recreate_swapchain"
  /\ \E outcome \in CreateSwapchainOutcomes
                      \cup { "wait_idle_failed", "image_views_failed" } :
       /\ swapchain_config' =
            recreate_swapchain_config(swapchain_config, surface_report,
              IF outcome = "image_views_failed" THEN "ok" ELSE outcome)
       /\ RenderStep(outcome, "recreate_create_color_resources")
  /\ UNCHANGED targets
  /\ TargetFrame

\* RenderRecreateColorResources, with the color target left as it is
RenderRecreateKeepsColorResources ==
  /\ render.at = "recreate_create_color_resources"
  /\ RenderStep("ok", "recreate_create_depth_resources")
  /\ UNCHANGED << targets, swapchain_config >>
  /\ TargetFrame

\* create_color_resources() of recreate_swapchain
RenderRecreateColorResources ==
  /\ render.at = "recreate_create_color_resources"
  /\ \E outcome \in CreateTargetOutcomes \ { "find_depth_format_failed" } :
       /\ targets' = create_color_resources(targets, swapchain_config, outcome)
       /\ RenderStep(outcome, "recreate_create_depth_resources")
  /\ UNCHANGED swapchain_config
  /\ TargetFrame

\* create_depth_resources() of recreate_swapchain, after which draw_frame
\* returns to main_loop
RenderRecreateDepthResources ==
  /\ render.at = "recreate_create_depth_resources"
  /\ \E outcome \in CreateTargetOutcomes :
       /\ targets' = create_depth_resources(targets, swapchain_config, outcome)
       /\ RenderStep(outcome, "acquire_next_image")
  /\ UNCHANGED swapchain_config
  /\ TargetFrame

TargetNext ==
  \/ RenderCreateSwapchain
  \/ RenderCreateColorResources
  \/ RenderCreateDepthResources
  \/ RenderAcquireNextImage
  \/ RenderRecordCommandBuffer
  \/ RenderPresent
  \/ RenderRecreateSwapchain
  \/ RenderRecreateColorResources
  \/ RenderRecreateDepthResources
  \/ SurfaceChanges

TargetSpec == Init /\ [][TargetNext]_vars

\* ------------------------------------------------------------ properties
RecreateSteps == << "recreate_wait_idle", "recreate_create_swapchain",
                    "recreate_create_image_views",
                    "recreate_create_color_resources",
                    "recreate_create_depth_resources" >>

RecreateStepSet == { RecreateSteps[i] : i \in 1 .. Len(RecreateSteps) }

RecreatePcs == { "recreate_get_size", "recreate_wait_events",
                 "recreate_glfw_wait_events" }
                 \cup RecreateStepSet

\* C1: at most max_frames_in_flight submissions are unresolved, at most one
\* per slot; between the return of the fence wait and the reset of the fence
\* the slot's fence is signalled, and from the return of the wait to the
\* submit the slot has no unresolved submission.
FramesInFlightBounded ==
  /\ \A s \in Slots : unresolved[s] <= 1
  /\ TotalUnresolved <= max_frames_in_flight
  /\ pc \in { "acquire", "acquire_result", "update_uniform_buffer",
              "reset_fences" } => in_flight_fences_[Slot]
  /\ pc \in { "acquire", "acquire_result", "update_uniform_buffer",
              "reset_fences", "reset_command_buffer",
              "record_command_buffer", "submit" }
       => unresolved[frame_index_] = 0

\* a slot is used again (third call of draw_frame) and, once it has
\* submitted, both slots have an unresolved submission
SlotReusedWithTwoInFlight ==
  /\ pc = "present"
  /\ draw_calls >= 3
  /\ TotalUnresolved = max_frames_in_flight

\* C2: whenever draw_frame indexes render_finished_semaphores_ with the
\* acquired image index (at the submit and at the present), the index is
\* inside the vector and the vector has one semaphore per swapchain image.
RenderFinishedPerImage ==
  pc \in { "submit", "present" }
    => /\ InRange
       /\ Len(render_finished_semaphores_) = Len(swapchain_images_)

\* C3: when the acquire reports out-of-date, draw_frame calls
\* recreate_swapchain and nothing else: until that call returns no draw step
\* runs, frame_index_ keeps its value, no fence is reset, no semaphore is
\* touched and nothing is submitted; main_loop goes on to its next iteration
\* exactly when the recreation succeeded.
OutOfDateAcquireAborts ==
  [][ /\ (pc = "acquire_result" /\ acquire_result = "eErrorOutOfDateKHR"
            /\ pc' # pc)
        => (pc' = "recreate_get_size" /\ recreate_from' = "acquire")
      /\ (recreate_from = "acquire" \/ recreate_from' = "acquire")
        => /\ pc' \in RecreatePcs \cup { "loop_test", "report" }
           /\ frame_index_' = frame_index_
           /\ \A s \in Slots :
                /\ unresolved'[s] <= unresolved[s]
                /\ in_flight_fences_[s + 1] => in_flight_fences_'[s + 1]
           /\ UNCHANGED << presentation_complete_semaphores_,
                           render_finished_semaphores_ >>
           /\ pc' = "loop_test"
                <=> (pc = "recreate_create_depth_resources"
                       /\ pc' # pc /\ result' = "ok")
    ]_vars

\* a recreation called after an out-of-date acquire is at its last step
OutOfDateAcquireRecreating ==
  /\ recreate_from = "acquire"
  /\ pc = "recreate_create_depth_resources"

\* C4: after the present, if it returned suboptimal or out-of-date or
\* framebuffer_resized_ is set, the flag is cleared and recreate_swapchain
\* is called; otherwise a result other than success is the fatal
\* queue_present_failed, and success returns to main_loop.
PresentBranches ==
  [][ (pc = "present_result" /\ pc' # pc)
        => IF \/ presentation_result \in { "eSuboptimalKHR",
                                           "eErrorOutOfDateKHR" }
              \/ framebuffer_resized_
             THEN /\ ~framebuffer_resized_'
                  /\ pc' = "recreate_get_size"
                  /\ recreate_from' = "present"
                  /\ result' = "ok"
             ELSE IF presentation_result # "eSuccess"
               THEN /\ result' = "queue_present_failed"
                    /\ pc' = "report"
               ELSE /\ result' = "ok"
                    /\ pc' = "loop_test"
    ]_vars

\* recreate_swapchain has been called from the present branch and the flag
\* is clear
RecreatingAfterPresent ==
  /\ pc = "recreate_get_size"
  /\ recreate_from = "present"
  /\ ~framebuffer_resized_
  /\ draw_calls >= 2

\* the positions inside draw_frame proper
DrawSteps == { "wait_for_fences", "acquire", "acquire_result",
               "update_uniform_buffer", "reset_fences",
               "reset_command_buffer", "record_command_buffer", "submit",
               "present", "present_result" }

\* C5: recreate_swapchain is entered only after an out-of-date acquire or a
\* suboptimal / out-of-date / resize-flagged present, and a recreation that
\* succeeds goes back to the loop test. Every failing step of an iteration
\* (in draw_frame or in the recreation) ends main_loop with that error: the
\* error is kept, no further draw_frame call is made, and report_error runs
\* exactly once before cleanup.
OnlyTwoRecoveries ==
  [][ /\ (pc # "recreate_get_size" /\ pc' = "recreate_get_size")
        => /\ result' = "ok"
           /\ \/ /\ pc = "acquire_result"
                 /\ acquire_result = "eErrorOutOfDateKHR"
              \/ /\ pc = "present_result"
                 /\ \/ presentation_result \in { "eSuboptimalKHR",
                                                 "eErrorOutOfDateKHR" }
                    \/ framebuffer_resized_
      /\ (pc \in RecreatePcs /\ pc' = "loop_test")
        => (pc = "recreate_create_depth_resources" /\ result' = "ok")
      /\ (pc = "acquire_result" /\ pc' # pc
            /\ acquire_result \notin { "eSuccess", "eSuboptimalKHR",
                                       "eErrorOutOfDateKHR" })
        => result' = "next_image_acquire_failed"
      /\ (pc = "present_result" /\ pc' # pc /\ ~framebuffer_resized_
            /\ presentation_result \notin { "eSuccess", "eSuboptimalKHR",
                                            "eErrorOutOfDateKHR" })
        => result' = "queue_present_failed"
      /\ (pc \in DrawSteps \cup RecreatePcs /\ pc' # pc)
        => \/ result' = "ok" /\ pc' \in DrawSteps \cup RecreatePcs
                                          \cup { "loop_test" }
           \/ result' # "ok" /\ pc' = "report"
      /\ (result = "ok" /\ result' # "ok") => pc' = "report"
      /\ result # "ok"
        => /\ result' = result
           /\ pc' \in { "report", "cleanup", "done" }
           /\ draw_calls' = draw_calls
           /\ recreate_calls' = recreate_calls
      /\ reported' <= 1
      /\ (pc' \in { "cleanup", "done" } /\ result' # "ok") => reported' = 1
      /\ result' = "ok" => reported' = 0
    ]_vars

ShutdownAlwaysDrains ==
  (released /\ loop_exit # "closed") => unresolved_at_release = 0

\* C9: the steps of recreate_swapchain run in the order device-idle wait,
\* cleanup_swapchain + create_swapchain, create_image_views,
\* create_color_resources, create_depth_resources, each entered only from a
\* successful previous one; the surface is never changed; the swapchain
\* step clears the views and installs a new swapchain with its images, the
\* views step makes one view per image; from the successful device-idle
\* wait to the end of the recreation no submission is unresolved.
RecreationOrder ==
  [][ /\ \A i \in 1 .. Len(RecreateSteps) :
           (pc # RecreateSteps[i] /\ pc' = RecreateSteps[i])
             => /\ result' = "ok"
                /\ IF i = 1
                     THEN pc \in { "recreate_get_size",
                                   "recreate_glfw_wait_events" }
                     ELSE pc = RecreateSteps[i - 1]
      /\ (pc \in RecreatePcs /\ pc' = "loop_test")
           => pc = RecreateSteps[Len(RecreateSteps)]
      /\ pc \in RecreatePcs
           => /\ surface_' = surface_
              /\ surface_ # nullptr
      /\ (pc = "recreate_wait_idle" /\ pc' # pc)
           => /\ UNCHANGED swapVars
              /\ pc' = "recreate_create_swapchain" => TotalUnresolved' = 0
      /\ pc \in RecreateStepSet \ { "recreate_wait_idle" }
           => /\ TotalUnresolved = 0
              /\ TotalUnresolved' = 0
      /\ (pc = "recreate_create_swapchain" /\ pc' # pc)
           => /\ swapchain_image_views_' = << >>
              /\ swapchain_' # swapchain_
              /\ pc' = "recreate_create_image_views"
                   => /\ swapchain_' # nullptr
                      /\ Len(swapchain_images_') >= 1
                      /\ \A i \in 1 .. Len(swapchain_images_') :
                           swapchain_images_'[i] = swapchain_'
      /\ (pc = "recreate_create_image_views" /\ pc' # pc)
           => /\ UNCHANGED << swapchain_, swapchain_images_ >>
              /\ pc' = "recreate_create_color_resources"
                   => swapchain_image_views_' = swapchain_images_
      /\ (pc \in { "recreate_create_color_resources",
                   "recreate_create_depth_resources" })
           => UNCHANGED swapVars
    ]_vars

\* a recreation that was called with a submission still unresolved has
\* replaced the swapchain and is at its last step
RecreationAtLastStep ==
  /\ pc = "recreate_create_depth_resources"
  /\ swapchain_ >= 2
  /\ swapchain_image_views_ = swapchain_images_
  /\ recreate_from = "present"

\* C10: recreate_swapchain is at the device-idle wait or at a later step
\* only with a width and a height, as last read, that are both non-zero;
\* while it is in the wait-events loop one of the two is zero.
NeverRecreatesZeroSized ==
  /\ pc \in RecreateStepSet => (width # 0 /\ height # 0)
  /\ pc = "recreate_wait_events" => (width = 0 \/ height = 0)

\* the window was zero-sized when recreate_swapchain was called from the
\* present branch; events handled inside the wait loop (they set the resize
\* flag again) brought a non-zero size and the recreation goes on
ResumedAfterMinimize ==
  /\ pc = "recreate_wait_idle"
  /\ recreate_from = "present"
  /\ framebuffer_resized_
  /\ width # 0
  /\ height # 0

\* C11: recreate_swapchain is blocked in glfwWaitEvents only while the
\* framebuffer size it has read is zero-sized: once it has read the restored
\* size it goes on to the device-idle wait.
BlockedOnlyWhileZeroSized ==
  pc = "recreate_glfw_wait_events" => ZeroSized(width, height)

CloseOnlyAtIterationBoundary ==
  [][ /\ (pc # "main_loop_wait_idle" /\ pc' = "main_loop_wait_idle")
        => /\ pc = "loop_test"
           /\ should_close
           /\ loop_exit' = "closed"
      /\ loop_exit' # loop_exit
        => /\ pc = "loop_test"
           /\ should_close
      /\ (pc \in DrawSteps \cup RecreatePcs /\ pc' # pc)
        => \/ /\ pc' \in DrawSteps \cup RecreatePcs \cup { "loop_test" }
              /\ result' = "ok"
           \/ /\ pc' = "report"
              /\ result' # "ok"
           \/ pc' = "aborted"
      /\ (pc \in DrawSteps \cup RecreatePcs \cup { "poll_events" })
        => loop_exit' = "none"
      /\ (pc = "loop_test" /\ ~should_close /\ pc' # pc) => pc' = "poll_events"
      /\ (pc' \in { "cleanup", "done" } /\ result' = "ok")
        => loop_exit' = "closed"
    ]_vars

\* a close request has come after the loop test of the iteration, events
\* have been handled inside recreate_swapchain's wait, and the recreation
\* goes on
CloseRequestedInsideRecreation ==
  /\ should_close
  /\ pc = "recreate_create_swapchain"
  /\ recreate_from = "present"
  /\ framebuffer_resized_
  /\ loop_exit = "none"

\* C14 as stated: the count chosen is at least max(3, minImageCount) (and at
\* most max(maxImageCount, count)) when maxImageCount > 0, and is
\* max(3, minImageCount) when maxImageCount is 0.
ImageCountAtLeastThreeOrMin ==
  call.fn = "choose_swap_min_image_count"
    => LET min   == call.args.minImageCount
           max   == call.args.maxImageCount
           count == returned.value
       IN  IF max > 0
             THEN Max(3, min) <= count /\ count <= Max(max, count)
             ELSE count = Max(3, min)

\* C14, amended: the count chosen is max(3, minImageCount) unless a non-zero
\* maxImageCount is below that, and then it is maxImageCount: it never
\* exceeds a non-zero maxImageCount, never exceeds max(3, minImageCount), and
\* is not below minImageCount when the surface's pair is consistent.
ImageCountClampedToMax ==
  call.fn = "choose_swap_min_image_count"
    => LET min   == call.args.minImageCount
           max   == call.args.maxImageCount
           count == returned.value
       IN  /\ returned.error = "none"
           /\ max > 0 => count <= max
           /\ count <= Max(3, min)
           /\ count < Max(3, min) => count = max
           /\ max = 0 => count = Max(3, min)
           /\ (max = 0 \/ min <= max) => count >= min

\* a surface that allows no more than 2 images gets 2, below max(3, min)
ImageCountBelowThree ==
  /\ call.fn = "choose_swap_min_image_count"
  /\ call.args = [ minImageCount |-> 1, maxImageCount |-> 2 ]
  /\ returned.value = 2

\* the format and colour space choose_swap_surface_format looks for
PreferredFormat ==
  [ format |-> "eB8G8R8A8Srgb", colorSpace |-> "eSrgbNonlinear" ]

\* C15: for a non-empty list of surface formats, choose_swap_surface_format
\* returns the B8G8R8A8 sRGB / sRGB-nonlinear entry when the list holds it
\* at any position, and the first element of the list otherwise.
SurfaceFormatPreferredElseFirst ==
  call.fn = "choose_swap_surface_format"
    => LET available_formats == call.args
       IN  /\ returned.error = "none"
           /\ IF \E i \in 1 .. Len(available_formats) :
                   available_formats[i] = PreferredFormat
                THEN returned.value = PreferredFormat
                ELSE returned.value = available_formats[1]

\* the preferred entry is the last of three, behind an entry with the same
\* format in another colour space, and is the one returned
PreferredFormatFoundAtTheEnd ==
  /\ call.fn = "choose_swap_surface_format"
  /\ Len(call.args) = 3
  /\ call.args[1] = [ format |-> "eB8G8R8A8Srgb",
                      colorSpace |-> "eExtendedSrgbLinearEXT" ]
  /\ call.args[3] = PreferredFormat
  /\ returned.value = PreferredFormat

\* C16: for any list of present modes, choose_swap_presentation_mode
\* returns eMailbox when the list holds it and eFifo otherwise, and so never
\* any other mode.
PresentModeMailboxElseFifo ==
  call.fn = "choose_swap_presentation_mode"
    => LET available_presentation_modes == call.args
       IN  /\ returned.error = "none"
           /\ returned.value \in { "eMailbox", "eFifo" }
           /\ returned.value = "eMailbox"
                <=> \E i \in 1 .. Len(available_presentation_modes) :
                      available_presentation_modes[i] = "eMailbox"

\* a list without eMailbox that begins with another mode gives eFifo
FifoChosenOverFirstMode ==
  /\ call.fn = "choose_swap_presentation_mode"
  /\ call.args = << "eImmediate", "eFifoRelaxed", "eFifo" >>
  /\ returned.value = "eFifo"

\* bit number b of the unsigned integer n is set
BitSet(n, b) == (n \div (2 ^ b)) % 2 = 1

\* memory type i is valid, allowed by the filter, and has every requested flag
MemoryTypeQualifies(i, args) ==
  /\ i < args.memory_properties.memoryTypeCount
  /\ BitSet(args.type_filter, i)
  /\ \A bit \in MemoryPropertyFlagBits :
       BitAnd(args.properties, bit) # 0
         => BitAnd(args.memory_properties.memoryTypes[i + 1], bit) # 0

\* C17: find_memory_type returns the lowest index below memoryTypeCount whose
\* bit is set in the filter and whose property flags include every requested
\* flag, and returns search_for_memory_type_failed exactly when no index
\* qualifies.
LowestQualifyingMemoryType ==
  call.fn = "find_memory_type"
    => LET qualifying == { i \in 0 .. (MaxMemoryTypes - 1) :
                             MemoryTypeQualifies(i, call.args) }
       IN  /\ returned.error \in { "none", "search_for_memory_type_failed" }
           /\ returned.error = "search_for_memory_type_failed"
                <=> qualifying = {}
           /\ returned.error = "none"
                => /\ returned.value \in qualifying
                   /\ \A i \in qualifying : returned.value <= i

\* index 0 has one of the two requested flags, index 1 is filtered out,
\* index 2 is the first that qualifies
MemoryTypeFoundPastPartialMatch ==
  /\ call.fn = "find_memory_type"
  /\ call.args = [ type_filter |-> 5, properties |-> 3,
                   memory_properties |->
                     [ memoryTypeCount |-> 3, memoryTypes |-> << 1, 3, 3 >> ] ]
  /\ returned = [ value |-> 2, error |-> "none" ]

\* C18: for a texture of width w >= 1 and height h >= 1 the mip-level count
\* is floor(log2(max(w, h))) + 1, the only r with 2^(r-1) <= max(w, h) < 2^r;
\* 512x512 gives 10, 500x500 gives 9 and 1x1 gives 1.
MipLevelsFloorLog2OfLargerSide ==
  call.fn = "create_texture_image"
    => LET w == call.args.texture_width
           h == call.args.texture_height
           r == returned.value
       IN  /\ r >= 1
           /\ \A side \in { w, h } : side < 2 ^ r
           /\ \E side \in { w, h } : 2 ^ (r - 1) <= side
           /\ (w = 512 /\ h = 512) => r = 10
           /\ (w = 500 /\ h = 500) => r = 9
           /\ (w = 1 /\ h = 1) => r = 1

\* a texture that is not square and whose larger side is no power of two
MipLevelsOfOblongTexture ==
  /\ call.fn = "create_texture_image"
  /\ call.args = [ texture_width |-> 3, texture_height |-> 500 ]
  /\ returned.value = 9

InitPcs == { "init_window", "init_vulkan", "end_single_time_commands",
             "single_time_wait_idle", "single_time_done" }

\* the positions of run() after its chain has ended with an error
AfterFailurePcs == { "report", "cleanup", "done" }

\* C20: init_window, the init_vulkan steps in their listed order and main_loop
\* compose by short-circuit: the steps run one after the other, each once;
\* main_loop starts only after the last step has succeeded; the first error
\* is the result, it is never replaced, and after it no step of the chain
\* runs: run() only reports and cleans up.
ShortCircuitChain ==
  [][ /\ init_step' \in { init_step, init_step + 1 }
      /\ init_step' = init_step + 1
           => pc \in { "init_vulkan", "single_time_done" } /\ result' = "ok"
      /\ pc' = "init_window" => pc = "init_window"
      /\ pc' = "init_vulkan" => pc \in InitPcs
      /\ (pc = "init_vulkan" /\ pc' = "init_vulkan")
           => init_step' = init_step + 1
      /\ (pc \in InitPcs /\ pc' \notin InitPcs /\ result' = "ok")
           => /\ pc = "init_vulkan"
              /\ init_step = Len(InitSteps)
              /\ pc' = "loop_test"
      /\ (pc \in InitPcs /\ result' # "ok")
           => pc' = "report" /\ init_step' = init_step
      /\ draw_calls' # draw_calls
           => result = "ok" /\ init_step = Len(InitSteps) + 1
      /\ result # "ok"
           => /\ result' = result
              /\ pc \in AfterFailurePcs
              /\ pc' \in AfterFailurePcs
              /\ UNCHANGED << init_step, draw_calls, recreate_calls >>
    ]_vars

\* the twelfth step of init_vulkan has failed: its error is the result, it
\* was reported once, the later steps and main_loop never ran
InitFailedAtGraphicsPipeline ==
  /\ pc = "done"
  /\ result = "create_graphics_pipeline"
  /\ init_step = 12
  /\ reported = 1
  /\ draw_calls = 0
  /\ loop_exit = "none"

\* C21: an acquire result other than success, suboptimal and out-of-date
\* makes draw_frame return next_image_acquire_failed, and the assertion in
\* front of that return holds for every result that reaches it: the result
\* is then eTimeout or eNotReady and the process is never aborted there.
AcquireAssertionHolds ==
  /\ ( /\ pc = "acquire_result"
       /\ acquire_result \notin { "eSuccess", "eSuboptimalKHR",
                                  "eErrorOutOfDateKHR" } )
       => acquire_result \in AssertedAcquireResults
  /\ pc # "aborted"

\* C22: each drawn frame is a producer/consumer chain: from a successful
\* acquire to the submit the slot's presentation-complete semaphore carries
\* the signal of that acquire; the submit consumes it and signals the
\* render-finished semaphore of the acquired image, which the present of that
\* image then consumes; no semaphore is signalled while an earlier signal of
\* it has not been consumed.
SemaphoreChainPerImage ==
  [][ /\ pc \in { "update_uniform_buffer", "reset_fences",
                  "reset_command_buffer", "record_command_buffer", "submit" }
        => presentation_complete_semaphores_[Slot]
      /\ (pc = "acquire" /\ pc' = "acquire_result"
            /\ acquire_result' \in { "eSuccess", "eSuboptimalKHR" })
        => /\ ~ presentation_complete_semaphores_[Slot]
           /\ presentation_complete_semaphores_'[Slot]
      /\ (pc = "submit" /\ pc' = "present")
        => /\ ~ presentation_complete_semaphores_'[Slot]
           /\ InRange
           /\ ~ render_finished_semaphores_[image_index + 1]
           /\ render_finished_semaphores_'[image_index + 1]
      /\ (pc = "present" /\ pc' = "present_result")
        => /\ InRange
           /\ render_finished_semaphores_[image_index + 1]
           /\ ~ render_finished_semaphores_'[image_index + 1]
    ]_vars

\* C23: no two unresolved submissions reference the same command buffer:
\* a slot has at most one unresolved submission and its command buffer is
\* reset, re-recorded and submitted only while it has none; at most one
\* submission of a one-shot command buffer is unresolved, a one-shot buffer
\* that was submitted is freed only by the return that follows the
\* queue-idle wait, retired when that wait succeeded, and no other command
\* buffer is begun or submitted while its submission is unresolved.
CommandBuffersNeverShared ==
  [][ /\ \A s \in Slots : unresolved[s] <= 1
      /\ single_time_unresolved <= 1
      /\ pc \in { "reset_command_buffer", "record_command_buffer", "submit" }
           => unresolved[frame_index_] = 0 /\ single_time_unresolved = 0
      /\ (single_time_buffer = "submitted" /\ single_time_buffer' = "none")
           => pc = "single_time_wait_idle"
      /\ (pc = "single_time_wait_idle" /\ pc' # pc /\ result' = "ok")
           => single_time_unresolved' = 0 /\ single_time_buffer' = "none"
      /\ single_time_buffer' = "recording"
           => single_time_buffer = "none" /\ single_time_unresolved = 0
    ]_vars

\* after the one-shot copies of the setup, a slot's command buffer is
\* recorded for the second time while the other slot's submission is
\* unresolved
SlotRecordedAgainAfterTransfers ==
  /\ pc = "record_command_buffer"
  /\ draw_calls >= 3
  /\ unresolved[frame_index_] = 0
  /\ TotalUnresolved = 1
  /\ single_time_buffer = "none"

\* the steps of draw_frame in the order of its text
DrawOrder == << "wait_for_fences", "acquire", "acquire_result",
                "update_uniform_buffer", "reset_fences",
                "reset_command_buffer", "record_command_buffer", "submit",
                "present", "present_result" >>

\* the place of a step of draw_frame in DrawOrder
DrawPosition(step) == CHOOSE i \in 1 .. Len(DrawOrder) : DrawOrder[i] = step

\* the state of the current frame slot at a position of the program
SlotState(at) ==
  CASE at \in { "wait_for_fences", "acquire", "acquire_result" } -> "Acquiring"
    [] at \in { "update_uniform_buffer", "reset_fences",
                "reset_command_buffer", "record_command_buffer", "submit" }
         -> "Recording"
    [] at = "present" -> "Submitted"
    [] at = "present_result" -> "Presenting"
    [] OTHER -> "Idle"

\* the state that follows a slot state in an iteration
NextSlotState(state) ==
  CASE state = "Idle" -> "Acquiring"
    [] state = "Acquiring" -> "Recording"
    [] state = "Recording" -> "Submitted"
    [] state = "Submitted" -> "Presenting"
    [] state = "Presenting" -> "Idle"

\* C24: in an iteration that draws the steps run in this order, each only
\* after the one before it succeeded: fence wait, acquire, uniform update,
\* fence reset, command buffer reset, record, submit, present, advance of
\* frame_index_; a step that fails, aborts or calls the recreation ends the
\* iteration. The slot's fence is reset only at the fence reset, a
\* submission is added only at the submit, frame_index_ moves only after
\* the present, and the slot goes Idle, Acquiring, Recording, Submitted,
\* Presenting, Idle without skipping or repeating a state.
DrawStepsInOrder ==
  [][ /\ (pc \in DrawSteps /\ pc' # pc)
        => \/ /\ DrawPosition(pc) < Len(DrawOrder)
              /\ pc' = DrawOrder[DrawPosition(pc) + 1]
              /\ result' = "ok"
           \/ pc' = "report" /\ result' # "ok"
           \/ pc' = "aborted" /\ pc = "acquire_result"
           \/ /\ pc \in { "acquire_result", "present_result" }
              /\ pc' = "recreate_get_size"
           \/ pc = "present_result" /\ pc' = "loop_test"
      /\ (pc' \in DrawSteps /\ pc' # pc)
        => \/ pc = "poll_events" /\ pc' = "wait_for_fences"
           \/ pc \in DrawSteps /\ pc' = DrawOrder[DrawPosition(pc) + 1]
      /\ frame_index_' # frame_index_
        => /\ pc = "present_result" /\ pc' = "loop_test"
           /\ frame_index_' = (frame_index_ + 1) % max_frames_in_flight
      /\ \A s \in Slots :
           /\ ( /\ Len(in_flight_fences_) = max_frames_in_flight
                /\ Len(in_flight_fences_') = max_frames_in_flight
                /\ in_flight_fences_[s + 1]
                /\ ~ in_flight_fences_'[s + 1] )
                => pc = "reset_fences" /\ s = frame_index_
           /\ unresolved'[s] > unresolved[s]
                => pc = "submit" /\ s = frame_index_
      /\ SlotState(pc') # SlotState(pc)
        => \/ SlotState(pc') = NextSlotState(SlotState(pc))
           \/ SlotState(pc') = "Idle"
    ]_vars

\* two iterations have run through all their steps, one on each slot
BothSlotsDrawnInOrder ==
  /\ pc = "loop_test"
  /\ draw_calls = 2
  /\ recreate_calls = 0
  /\ frame_index_ = 0
  /\ result = "ok"

\* C25: whenever draw_frame waits on the slot's fence, the fence is
\* signalled or a submission that will signal it is unresolved; a fence
\* becomes unsignalled only at the fence reset of an iteration whose acquire
\* gave an image; so on a device that retires what it was given the wait
\* always returns.
FenceWaitAlwaysReturns ==
  /\ [](pc = "wait_for_fences"
          => in_flight_fences_[Slot] \/ unresolved[frame_index_] > 0)
  /\ [][ \A s \in Slots :
           ( /\ Len(in_flight_fences_) = max_frames_in_flight
             /\ Len(in_flight_fences_') = max_frames_in_flight
             /\ in_flight_fences_[s + 1]
             /\ ~ in_flight_fences_'[s + 1] )
             => /\ pc = "reset_fences"
                /\ s = frame_index_
                /\ acquire_result \in { "eSuccess", "eSuboptimalKHR" }
     ]_vars
  /\ (pc = "wait_for_fences") ~> (pc # "wait_for_fences")

\* the wait on a slot's fence after an out-of-date acquire on that slot and
\* the recreation that followed it, with the other slot's frame unresolved
FenceWaitAfterOutOfDateAcquire ==
  /\ pc = "wait_for_fences"
  /\ draw_calls >= 3
  /\ recreate_calls >= 1
  /\ frame_index_ = 1
  /\ in_flight_fences_[Slot]

\* a buffer or an image handle and the handle of its memory
BackedObjects ==
  { << "vertex_buffer_", "vertex_buffer_memory_" >>,
    << "index_buffer_", "index_buffer_memory_" >>,
    << "uniform_buffers_", "uniform_buffers_memory_" >>,
    << "texture_image_", "texture_image_memory_" >>,
    << "depth_image_", "depth_image_memory_" >>,
    << "color_image_", "color_image_memory_" >>,
    << "staging_buffer", "staging_buffer_memory" >> }

\* the handles that may hold what the handle held: itself and the temporary
\* it was swapped into
HoldersOf(handle) ==
  { handle } \cup ({ handle \o ".replaced" } \cap Handles)

\* C26: the memory behind a buffer or an image is released only after that
\* buffer or image has been destroyed, when a depth or color target is
\* replaced and at shutdown, and the logical device is destroyed only after
\* every object allocated from it.
ObjectDestroyedBeforeMemory ==
  [][ /\ \A pair \in BackedObjects, g \in 1 .. 2 :
           ( /\ \E h \in HoldersOf(pair[2]) : holds[h] = g
             /\ \A h \in HoldersOf(pair[2]) : holds'[h] # g )
             => \A h \in HoldersOf(pair[1]) : holds[h] # g
      /\ (holds["device_"] # nullptr /\ holds'["device_"] = nullptr)
           => \A h \in Handles \ { "device_" } : holds[h] = nullptr
    ]_vars

\* C27: while draw_frame runs, and so whenever a frame is recorded, there is
\* a swapchain, swapchain_image_views_ has one view per image of
\* swapchain_images_ in the same order, every image and every view belongs
\* to the current swapchain, and the acquired index names one of them; the
\* swapchain handle, the image list and the views change only inside the
\* setup, recreate_swapchain and cleanup.
ViewsMatchCurrentSwapchain ==
  [][ /\ pc \in DrawSteps
        => /\ swapchain_ # nullptr
           /\ swapchain_image_views_ = swapchain_images_
           /\ Len(swapchain_images_) > 0
           /\ \A i \in 1 .. Len(swapchain_images_) :
                swapchain_images_[i] = swapchain_
           /\ image_index < Len(swapchain_image_views_)
      /\ << swapchain_, swapchain_images_, swapchain_image_views_ >>'
           # << swapchain_, swapchain_images_, swapchain_image_views_ >>
        => pc \in { "init_vulkan", "recreate_create_swapchain",
                    "recreate_create_image_views", "cleanup" }
    ]_vars

\* a frame is recorded on the second swapchain, after a recreation
RecordedOnRecreatedSwapchain ==
  /\ pc = "record_command_buffer"
  /\ recreate_calls = 1
  /\ swapchain_ = 2
  /\ Len(swapchain_image_views_) = 3
  /\ image_index = 2

\* C28: whenever create_logical_device succeeds, the family of the one
\* queue it creates, on which draw_frame presents, supports presentation to
\* the surface.
PresentQueueSupportsPresentation ==
  (call.fn = "create_logical_device" /\ returned.error = "none")
    => call.args.queue_families[returned.value.graphics_queue_[1] + 1].present

\* the lowest element of a non-empty set of indices as an optional,
\* std::nullopt for the empty set
LowestOf(indices) ==
  IF indices = {} THEN nullopt
  ELSE << CHOOSE i \in indices : \A j \in indices : i <= j >>

\* C29: get_queue_family_indices returns for both roles the lowest index
\* that supports graphics and presentation when there is one; else the
\* first index that supports graphics and the first that supports
\* presentation; a failing surface-support query gives no index at all;
\* create_logical_device fails with missing_queue_families exactly when a
\* role has no index or a query that was made failed.
QueueFamilyIndicesChosen ==
  call.fn = "create_logical_device"
    => LET queue_families == call.args.queue_families
           families == 0 .. (Len(queue_families) - 1)
           graphics == { i \in families : queue_families[i + 1].graphics }
           present  == { i \in families : queue_families[i + 1].present }
           both     == graphics \cap present
           queried  == IF both = {} THEN families
                       ELSE 0 .. LowestOf(both)[1]
           failed   == (call.args.failing_query - 1) \in queried
       IN  /\ returned.value.indices =
                IF failed THEN << nullopt, nullopt >>
                ELSE IF both # {} THEN << LowestOf(both), LowestOf(both) >>
                ELSE << LowestOf(graphics), LowestOf(present) >>
           /\ returned.error = "missing_queue_families"
                <=> (failed \/ graphics = {} \/ present = {})

\* a family for graphics alone and one for presentation alone come before
\* the family that supports both, which is chosen for both roles
LaterFamilyWithBothChosen ==
  /\ call.fn = "create_logical_device"
  /\ call.args.queue_families =
       << [ graphics |-> TRUE, present |-> FALSE ],
          [ graphics |-> FALSE, present |-> TRUE ],
          [ graphics |-> TRUE, present |-> TRUE ] >>
  /\ call.args.failing_query = 0
  /\ returned.value.indices = << << 2 >>, << 2 >> >>
  /\ returned.error = "none"

\* C30: when the two enumerations succeed, create_instance fails with
\* missing_required_layer if a required layer is not among the available
\* layers, fails with missing_required_extension if the layers are there
\* and a required extension is not among the available extensions, and
\* otherwise hands both required lists on unchanged and in order.
MissingNamesReported ==
  (/\ call.fn = "create_instance"
   /\ call.args.context.enumerateInstanceLayerProperties = "eSuccess"
   /\ call.args.context.enumerateInstanceExtensionProperties = "eSuccess")
    => LET build == call.args.enable_validation_layers
           context == call.args.context
           wanted_layers == required_layers(build)
           wanted_extensions ==
             required_extensions(build, context.glfw_extensions)
           layer_absent ==
             \E i \in 1 .. Len(wanted_layers) :
               wanted_layers[i] \notin Elements(context.layers)
           extension_absent ==
             \E i \in 1 .. Len(wanted_extensions) :
               wanted_extensions[i] \notin Elements(context.extensions)
       IN  /\ layer_absent => returned.error = "missing_required_layer"
           /\ (~ layer_absent /\ extension_absent)
                => returned.error = "missing_required_extension"
           /\ (~ layer_absent /\ ~ extension_absent)
                => /\ returned.value.layers = wanted_layers
                   /\ returned.value.extensions = wanted_extensions
                   /\ returned.error \in { "none", context.createInstance }

\* C40: choose_swap_extent returns the surface's current extent when it is
\* not the undefined marker; otherwise the framebuffer size with each side
\* clamped into the surface's limits for that axis.
SwapExtentCurrentOrClamped ==
  call.fn = "choose_swap_extent"
    => LET capabilities == call.args.capabilities
           size == call.args.framebuffer_size
           Clamped(r, v, lo, hi) ==
             /\ r \in lo .. hi
             /\ v \in lo .. hi => r = v
             /\ v < lo => r = lo
             /\ v > hi => r = hi
       IN  IF capabilities.currentExtent.width # uint32_max
             THEN returned.value = capabilities.currentExtent
             ELSE /\ Clamped(returned.value.width, size[1],
                             capabilities.minImageExtent.width,
                             capabilities.maxImageExtent.width)
                  /\ Clamped(returned.value.height, size[2],
                             capabilities.minImageExtent.height,
                             capabilities.maxImageExtent.height)

\* an undefined current extent and a framebuffer wider than the upper limit
\* and lower than the lower limit: both sides are clamped
FramebufferClampedOnBothAxes ==
  /\ call.fn = "choose_swap_extent"
  /\ call.args.capabilities.currentExtent.width = uint32_max
  /\ call.args.framebuffer_size[1] > call.args.capabilities.maxImageExtent.width
  /\ call.args.framebuffer_size[2] < call.args.capabilities.minImageExtent.height
  /\ returned.value =
       [ width |-> call.args.capabilities.maxImageExtent.width,
         height |-> call.args.capabilities.minImageExtent.height ]

\* the access masks and stages the claim fixes for the two pairs
LayoutTransitionTable(old_layout, new_layout) ==
  IF old_layout = "eUndefined" /\ new_layout = "eTransferDstOptimal"
    THEN << [ srcAccessMask |-> "none", dstAccessMask |-> "eTransferWrite",
              source_stage |-> "eTopOfPipe",
              destination_stage |-> "eTransfer" ] >>
  ELSE IF /\ old_layout = "eTransferDstOptimal"
          /\ new_layout = "eShaderReadOnlyOptimal"
    THEN << [ srcAccessMask |-> "eTransferWrite",
              dstAccessMask |-> "eShaderRead",
              source_stage |-> "eTransfer",
              destination_stage |-> "eFragmentShader" ] >>
  ELSE << >>

\* C33 as stated: the two pairs get their fixed masks and stages; every
\* other pair returns unsupported_layout_transition and submits nothing.
UnknownPairAlwaysUnsupported ==
  call.fn = "transition_image_layout"
    => LET row == LayoutTransitionTable(call.args.old_layout,
                                        call.args.new_layout)
       IN  IF row # << >>
             THEN returned.error = "none" => returned.value.barrier = row
             ELSE /\ returned.error = "unsupported_layout_transition"
                  /\ "submit" \notin Elements(returned.value.calls)

\* C33 (amended): once begin_single_time_commands has succeeded, the two
\* pairs get their fixed masks and stages and every other pair returns
\* unsupported_layout_transition; when it failed, its error is returned
\* for any pair; a pair outside the table never submits anything.
UnknownPairUnsupportedOnceBegun ==
  call.fn = "transition_image_layout"
    => LET row == LayoutTransitionTable(call.args.old_layout,
                                        call.args.new_layout)
           begun == call.args.failing
                      \notin { "allocateCommandBuffers", "begin" }
       IN  /\ begun /\ row # << >>
                => /\ returned.value.barrier = row
                   /\ returned.error \in { "none", "vk_error" }
                   /\ returned.error = "none"
                        <=> call.args.failing = "none"
           /\ begun /\ row = << >>
                => returned.error = "unsupported_layout_transition"
           /\ ~ begun => returned.error = "vk_error"
           /\ row = << >>
                => /\ "submit" \notin Elements(returned.value.calls)
                   /\ "pipelineBarrier" \notin Elements(returned.value.calls)

\* a pair outside the table, with the command buffer begun: the error, and
\* the calls stop before pipelineBarrier
UnknownPairRejected ==
  /\ call.fn = "transition_image_layout"
  /\ call.args.old_layout = "eShaderReadOnlyOptimal"
  /\ call.args.new_layout = "eTransferDstOptimal"
  /\ call.args.failing = "none"
  /\ returned.error = "unsupported_layout_transition"
  /\ returned.value.calls = << "allocateCommandBuffers", "begin" >>

\* C34: create_buffer and create_image make their calls in the order
\* create, memory requirements, memory type, allocate, bind, each only
\* after the one before succeeded; when no memory type qualifies the error
\* is search_for_memory_type_failed and nothing is allocated or bound; on
\* success the object is bound at offset 0 to the memory just allocated.
CreateQueryFindAllocateBind ==
  call.fn \in { "create_buffer", "create_image" }
    => LET args == call.args
           calls == returned.value.calls
           order == << args.create, "getMemoryRequirements",
                       "find_memory_type", "allocateMemory", "bindMemory" >>
           qualifying ==
             { i \in 0 .. (args.memory_properties.memoryTypeCount - 1) :
                 /\ BitAnd(args.memoryTypeBits, 2 ^ i) # 0
                 /\ BitAnd(args.memory_properties.memoryTypes[i + 1],
                           args.properties) = args.properties }
       IN  /\ \E n \in 1 .. Len(order) : calls = SubSeq(order, 1, n)
           /\ Len(calls) < Len(order) => returned.error # "none"
           /\ (qualifying = {} /\ args.failing # args.create)
                => /\ returned.error = "search_for_memory_type_failed"
                   /\ calls = SubSeq(order, 1, 3)
                   /\ returned.value.memory = args.memory
                   /\ returned.value.bound = << >>
           /\ returned.error = "none"
                => /\ calls = order
                   /\ returned.value.object # nullptr
                   /\ returned.value.memory \notin { nullptr, args.memory }
                   /\ returned.value.memory_type \in qualifying
                   /\ returned.value.bound =
                        << [ memory |-> returned.value.memory,
                             offset |-> 0 ] >>

\* a memory handle that held an earlier allocation: the image is bound to
\* the new one
ImageBoundToNewMemory ==
  /\ call.fn = "create_image"
  /\ call.args.memory = 1
  /\ returned.error = "none"
  /\ returned.value.bound = << [ memory |-> 2, offset |-> 0 ] >>

\* no memory type qualifies: the buffer exists, nothing is allocated
BufferWithoutMemoryType ==
  /\ call.fn = "create_buffer"
  /\ returned.error = "search_for_memory_type_failed"
  /\ returned.value.object # nullptr
  /\ returned.value.memory = nullptr

\* the place of a Vulkan call in a one-shot operation: allocate, begin,
\* the recorded commands, end, submit, wait
OneShotRank(name) ==
  CASE name = "allocateCommandBuffers" -> 1
    [] name = "begin" -> 2
    [] name = "end" -> 4
    [] name = "submit" -> 5
    [] name = "waitIdle" -> 6
    [] OTHER -> 3

\* C31: every transfer operation allocates, begins, records, ends, submits
\* without semaphores and without a fence, and waits for the queue to be
\* idle, in that order; it returns success only after the wait returned,
\* and nothing submitted by a transfer is unresolved outside that wait.
OneShotOrder ==
  LET rank(i) == OneShotRank(recorded[i].call)
      ranks == { rank(i) : i \in 1 .. Len(recorded) }
  IN  /\ \A i \in 1 .. Len(recorded), j \in 1 .. Len(recorded) :
           i < j => /\ rank(i) <= rank(j)
                    /\ rank(i) = rank(j) => rank(i) = 3
      /\ \A r \in ranks : r > 1 => (r - 1) \in ranks
      /\ \A i \in 1 .. Len(recorded) :
           recorded[i].call = "submit"
             => /\ recorded[i].fence = nullptr
                /\ recorded[i].waitSemaphoreCount = 0
                /\ recorded[i].signalSemaphoreCount = 0
      /\ transfer.step = "returned"
           => /\ ranks = 1 .. 6
              /\ single_time_unresolved = 0
      /\ single_time_unresolved > 0
           => /\ single_time_unresolved = 1
              /\ transfer.step \in { "wait_idle", "failed" }
      /\ transfer.step \in { "begin", "record", "end" }
           => single_time_unresolved = 0

\* the last operation, copy_buffer, has returned after its wait, the three
\* of create_texture_image before it
EveryTransferReturned ==
  /\ transfer = [ op |-> Len(TransferOps), step |-> "returned" ]
  /\ recorded[Len(recorded)].call = "waitIdle"
  /\ texture.mip_levels_ > 1

\* the size of level `level` of an image of the given width and height
LevelExtent(level) ==
  << Max(1, texture.width \div (2 ^ level)),
     Max(1, texture.height \div (2 ^ level)) >>

\* the commands the claim lists for generate_mip_maps, with the layout
\* each level must have when the command runs
RECURSIVE MipCommands(_)
MipCommands(i) ==
  IF i >= texture.mip_levels_
    THEN << [ call |-> "pipelineBarrier",
              baseMipLevel |-> texture.mip_levels_ - 1, levelCount |-> 1,
              oldLayout |-> "eTransferDstOptimal",
              newLayout |-> "eShaderReadOnlyOptimal",
              actual |-> { "eTransferDstOptimal" } ] >>
    ELSE << [ call |-> "pipelineBarrier", baseMipLevel |-> i - 1,
              levelCount |-> 1, oldLayout |-> "eTransferDstOptimal",
              newLayout |-> "eTransferSrcOptimal",
              actual |-> { "eTransferDstOptimal" } ],
            [ call |-> "blitImage", srcLevel |-> i - 1, dstLevel |-> i,
              srcImageLayout |-> "eTransferSrcOptimal",
              dstImageLayout |-> "eTransferDstOptimal",
              srcActual |-> "eTransferSrcOptimal",
              dstActual |-> "eTransferDstOptimal",
              srcExtent |-> LevelExtent(i - 1),
              srcWritten |-> LevelExtent(i - 1),
              dstExtent |-> LevelExtent(i) ],
            [ call |-> "pipelineBarrier", baseMipLevel |-> i - 1,
              levelCount |-> 1, oldLayout |-> "eTransferSrcOptimal",
              newLayout |-> "eShaderReadOnlyOptimal",
              actual |-> { "eTransferSrcOptimal" } ] >>
         \o MipCommands(i + 1)

\* C32: generate_mip_maps finds every level in transfer-dst; it records,
\* for i = 1 .. levels - 1 in order, level i - 1 to transfer-src, the blit
\* of level i - 1 into level i at half the size and at least 1, level
\* i - 1 to shader-read-only, and at last level levels - 1 to
\* shader-read-only; each barrier's old layout is the level's layout, each
\* blit reads transfer-src and writes transfer-dst, and at the end every
\* level is in shader-read-only.
MipChainLayouts ==
  (transfer.op > 0 /\ TransferOps[transfer.op] = "generate_mip_maps")
    => LET commands == SubSeq(recorded, 3, Len(recorded))
           expected == MipCommands(1)
           recording == { "mip_to_source", "mip_blit", "mip_to_shader_read",
                          "mip_last" }
           levels == 1 .. texture.mip_levels_
       IN  /\ transfer.step = "begin"
                => \A level \in levels :
                     texture.layouts[level] = "eTransferDstOptimal"
           /\ transfer.step \in recording
                => /\ Len(commands) < Len(expected)
                   /\ commands = SubSeq(expected, 1, Len(commands))
           /\ transfer.step \in { "end", "wait_idle", "returned" }
                => /\ SubSeq(commands, 1, Len(expected)) = expected
                   /\ \A level \in levels :
                        /\ texture.layouts[level] = "eShaderReadOnlyOptimal"
                        /\ texture.written[level] = LevelExtent(level - 1)

\* a texture of 5 x 2 with its three levels generated: 5 x 2, 2 x 1, 1 x 1
MipChainOfOddTexture ==
  /\ transfer = [ op |-> 3, step |-> "returned" ]
  /\ texture.width = 5 /\ texture.height = 2
  /\ texture.written = << << 5, 2 >>, << 2, 1 >>, << 1, 1 >> >>
  /\ texture.layouts = << "eShaderReadOnlyOptimal", "eShaderReadOnlyOptimal",
                          "eShaderReadOnlyOptimal" >>

\* the positions at which the CPU thread is inside a call that returns
\* only when the device or the window system has done something, with the
\* timeout the code passes
BlockingCalls ==
  [ wait_for_fences |->
      [ call |-> "device_.waitForFences", timeout |-> "uint64_max" ],
    acquire |->
      [ call |-> "swapchain_.acquireNextImage", timeout |-> "uint64_max" ],
    recreate_glfw_wait_events |->
      [ call |-> "glfwWaitEvents", timeout |-> "none" ],
    recreate_wait_idle |->
      [ call |-> "device_.waitIdle", timeout |-> "none" ],
    main_loop_wait_idle |->
      [ call |-> "device_.waitIdle", timeout |-> "none" ],
    single_time_wait_idle |->
      [ call |-> "graphics_queue_.waitIdle", timeout |-> "none" ] ]

descriptor_set_buffer_first(i) == 0

\* create_descriptor_sets: descriptor_sets_[i] is written, once, with
\* uniform_buffers_[i]
descriptor_set_buffer(i) == i

\* the uniform buffer a submission of slot s reads: record_command_buffer
\* binds descriptor_sets_[frame_index_] into command_buffers_[frame_index_]
SubmissionReads(s) == descriptor_set_buffer(s)

\* the uniform buffer update_uniform_buffer(frame_index_) writes through
\* uniform_buffers_mapped_[current_image]
CpuWrites == frame_index_

\* C36: when the CPU writes the uniform buffer of slot s, the fence wait of
\* this iteration has returned on the slot's fence, which is still
\* signalled, and no unresolved submission reads that buffer: a
\* submission of slot s reads uniform buffer s only.
UniformWriteAfterFence ==
  [][ (pc = "update_uniform_buffer" /\ pc' # pc)
        => /\ pc' = "reset_fences"
           /\ in_flight_fences_[Slot]
           /\ \A s \in Slots :
                unresolved[s] > 0 => SubmissionReads(s) # CpuWrites
    ]_vars

\* the CPU writes the uniform buffer of slot 0 while the submission of
\* slot 1 is unresolved
UniformWrittenWithOtherSlotInFlight ==
  /\ pc = "update_uniform_buffer"
  /\ frame_index_ = 0
  /\ unresolved[1] > 0

\* C37: whenever a frame is recorded, the multisample color target and the
\* depth target, and the views the frame attaches, have the extent of the
\* swapchain that the render area, the viewport and the scissor are set to,
\* however the window was resized and the swapchain recreated before
RenderTargetsHaveSwapchainExtent ==
  /\ render.at = "record_command_buffer"
       => \A target \in RenderTargets :
            targets[target] = swapchain_config.swapchain_extent_
  /\ render.frame # << >>
       => /\ render.frame[1].color_attachment = render.frame[1].renderArea
          /\ render.frame[1].depth_attachment = render.frame[1].renderArea

\* a frame is about to be recorded after the frame before it was recorded
\* with another extent: a recreation has rebuilt the targets in between
FrameRecordedAfterResize ==
  /\ render.at = "record_command_buffer"
  /\ render.frame # << >>
  /\ render.frame[1].renderArea # swapchain_config.swapchain_extent_
  /\ targets["color_image_view_"] = swapchain_config.swapchain_extent_
  /\ targets["depth_image_view_"] = swapchain_config.swapchain_extent_

\* the positions of the loop of recreate_swapchain that waits for a
\* framebuffer of non-zero size
WaitingForSize == pc \in { "recreate_wait_events", "recreate_glfw_wait_events" }

CallbackRuns ==
  /\ pc \in { "poll_events", "recreate_glfw_wait_events" }
  /\ framebuffer' # framebuffer

\* C39: framebuffer_resized_ becomes set only when the framebuffer-size
\* callback runs and becomes clear only in the present branch of draw_frame,
\* which then calls recreate_swapchain; from the call of a recreation that
\* an out-of-date acquire triggered to its return the flag keeps its value;
\* and a present that finds it set clears it and recreates, whatever
\* presentKHR returned
ResizeFlagSetByCallbackClearedAtPresent ==
  [][ /\ (~framebuffer_resized_ /\ framebuffer_resized_') => CallbackRuns
      /\ (framebuffer_resized_ /\ ~framebuffer_resized_')
           => /\ pc = "present_result"
              /\ pc' = "recreate_get_size"
              /\ recreate_from' = "present"
      /\ recreate_from' = "acquire" => UNCHANGED framebuffer_resized_
      /\ (pc = "present_result" /\ pc' # pc /\ framebuffer_resized_)
           => /\ ~framebuffer_resized_'
              /\ pc' = "recreate_get_size" ]_vars

\* a recreation triggered by an out-of-date acquire is at its last step
\* with the resize flag still set
FlagSetThroughAcquireRecreation ==
  /\ pc = "recreate_create_depth_resources"
  /\ recreate_from = "acquire"
  /\ framebuffer_resized_

====
